---- MODULE Spec2Model ----
(***************************************************************************)
(* Wordle Italiano: the guess evaluation of POST /api/guess                *)
(* ("come dovrebbe venire/server.js").  A request body carries a guess and *)
(* a target; the handler validates them, uppercases both and runs the      *)
(* two-pass evaluation on mutable copies (consumed slots are set to null). *)
(*                                                                         *)
(* Strings are sequences of one-character strings, indexed from 1 (the     *)
(* source indexes from 0): position i of the source is position i+1 here.  *)
(***************************************************************************)
EXTENDS Integers, Sequences, FiniteSets, TLC

\* Longest word of the exhaustively enumerated request bodies.
MaxLen == 3

\* Characters of the exhaustively enumerated words: two uppercase letters,
\* a lowercase letter, and a character whose uppercase form has two letters.
Chars == {"A", "N", "n", "ß"}

\* The words of the concrete scenarios, as the client would send them.
ScenarioWords ==
    { <<"S","T","A","R","E">>, <<"E","R","A","T","S">>,
      <<"L","I","B","R","O">>, <<"R","O","B","O","T">>,
      <<"A","N","N","O">>,     <<"N","O","N","N">> }

\* All words over Chars of length 0..MaxLen, and the scenario words.
Words == UNION { [1..n -> Chars] : n \in 0..MaxLen } \cup ScenarioWords

\* A field of req.body: absent from the JSON (undefined), the JSON null, a
\* string, or a number.
undefined == [type |-> "undefined"]

jsNull == [type |-> "null"]

Str(w) == [type |-> "string", chars |-> w]

JsNumber(n) == [type |-> "number", val |-> n]

JsValues == {undefined, jsNull} \cup { Str(w) : w \in Words }

\* The marker the evaluation writes into a consumed slot, and the value an
\* out-of-range array read yields.
null == "null"

outOfRange == "undefined"

\* The three verdict labels.
Verdicts == {"correct", "present", "absent"}

(***************************************************************************)
(* JavaScript primitives used by the handler                               *)
(***************************************************************************)

\* !v : undefined, null, the empty string and 0 are falsy, every other
\* string or number is truthy.
Falsy(v) ==
    \/ v.type \in {"undefined", "null"}
    \/ v.type = "string" /\ v.chars = <<>>
    \/ v.type = "number" /\ v.val = 0

\* v.length of a string.
Length(v) == Len(v.chars)

\* String.prototype.toUpperCase on one character: a sequence, because the
\* uppercase form of U+00DF is the two letters "SS".
UpperOfChar(c) ==
    CASE c = "n" -> <<"N">>
      [] c = "ß" -> <<"S", "S">>
      [] OTHER   -> <<c>>

RECURSIVE ToUpperCase(_)
ToUpperCase(s) ==
    IF s = <<>> THEN <<>>
    ELSE UpperOfChar(Head(s)) \o ToUpperCase(Tail(s))

\* arr[i]: the element, or undefined beyond the end of the array.
At(arr, i) == IF i \in DOMAIN arr THEN arr[i] ELSE outOfRange

\* Mutation of IndexOf: the search starts at the second slot.
IndexOfFromSecond(arr, x) ==
    IF \E j \in DOMAIN arr : j >= 2 /\ arr[j] = x
    THEN CHOOSE j \in DOMAIN arr :
            j >= 2 /\ arr[j] = x
                   /\ \A k \in DOMAIN arr : (k >= 2 /\ arr[k] = x) => j <= k
    ELSE -1

\* Mutation of IndexOf: the highest index holding x, as lastIndexOf.
LastIndexOf(arr, x) ==
    IF \E j \in DOMAIN arr : arr[j] = x
    THEN CHOOSE j \in DOMAIN arr :
            arr[j] = x /\ \A k \in DOMAIN arr : arr[k] = x => j >= k
    ELSE -1

\* Array.prototype.indexOf: the lowest index holding x, or -1.
IndexOf(arr, x) ==
    IF \E j \in DOMAIN arr : arr[j] = x
    THEN CHOOSE j \in DOMAIN arr :
            arr[j] = x /\ \A k \in DOMAIN arr : arr[k] = x => j <= k
    ELSE -1

\* Array(n).fill(v)
Fill(n, v) == [i \in 1..n |-> v]

(***************************************************************************)
(* The two passes.  st = [result, targetArr, guessArr] is the state of the *)
(* three local arrays; each operator runs its loop from index i to the end.*)
(***************************************************************************)

\* Mutation of Pass1: the matched guess slot is not set to null.
RECURSIVE Pass1KeepGuess(_, _)
Pass1KeepGuess(st, i) ==
    IF i > Len(st.guessArr) THEN st
    ELSE IF st.guessArr[i] = At(st.targetArr, i)
         THEN Pass1KeepGuess([result    |-> [st.result    EXCEPT ![i] = "correct"],
                              targetArr |-> [st.targetArr EXCEPT ![i] = null],
                              guessArr  |-> st.guessArr], i + 1)
         ELSE Pass1KeepGuess(st, i + 1)

\* Mutation of Pass1: the loop stops one position early.
RECURSIVE Pass1StopEarly(_, _)
Pass1StopEarly(st, i) ==
    IF i >= Len(st.guessArr) THEN st
    ELSE IF st.guessArr[i] = At(st.targetArr, i)
         THEN Pass1StopEarly([result    |-> [st.result    EXCEPT ![i] = "correct"],
                              targetArr |-> [st.targetArr EXCEPT ![i] = null],
                              guessArr  |-> [st.guessArr  EXCEPT ![i] = null]], i + 1)
         ELSE Pass1StopEarly(st, i + 1)

RECURSIVE Pass1(_, _)
Pass1(st, i) ==
    IF i > Len(st.guessArr) THEN st
    ELSE IF st.guessArr[i] = At(st.targetArr, i)
         THEN Pass1([result    |-> [st.result    EXCEPT ![i] = "correct"],
                     targetArr |-> [st.targetArr EXCEPT ![i] = null],
                     guessArr  |-> [st.guessArr  EXCEPT ![i] = null]], i + 1)
         ELSE Pass1(st, i + 1)

\* Mutation of Pass2: the target slot found is not consumed.
RECURSIVE Pass2NoConsume(_, _)
Pass2NoConsume(st, i) ==
    IF i > Len(st.guessArr) THEN st
    ELSE IF st.guessArr[i] = null THEN Pass2NoConsume(st, i + 1)
    ELSE LET idx == IndexOf(st.targetArr, st.guessArr[i])
         IN  IF idx # -1
             THEN Pass2NoConsume([result    |-> [st.result EXCEPT ![i] = "present"],
                                  targetArr |-> st.targetArr,
                                  guessArr  |-> st.guessArr], i + 1)
             ELSE Pass2NoConsume(st, i + 1)

\* Mutation of Pass2: every target slot holding the letter is consumed.
RECURSIVE Pass2ConsumeAll(_, _)
Pass2ConsumeAll(st, i) ==
    IF i > Len(st.guessArr) THEN st
    ELSE IF st.guessArr[i] = null THEN Pass2ConsumeAll(st, i + 1)
    ELSE LET idx == IndexOf(st.targetArr, st.guessArr[i])
         IN  IF idx # -1
             THEN Pass2ConsumeAll(
                      [result    |-> [st.result EXCEPT ![i] = "present"],
                       targetArr |-> [j \in DOMAIN st.targetArr |->
                                         IF st.targetArr[j] = st.guessArr[i]
                                         THEN null ELSE st.targetArr[j]],
                       guessArr  |-> st.guessArr], i + 1)
             ELSE Pass2ConsumeAll(st, i + 1)

\* Mutation of Pass2: the guess positions are visited from the last to the
\* first.
RECURSIVE Pass2Backwards(_, _)
Pass2Backwards(st, i) ==
    IF i > Len(st.guessArr) THEN st
    ELSE LET k == Len(st.guessArr) - i + 1
         IN  IF st.guessArr[k] = null THEN Pass2Backwards(st, i + 1)
             ELSE LET idx == IndexOf(st.targetArr, st.guessArr[k])
                  IN  IF idx # -1
                      THEN Pass2Backwards(
                               [result    |-> [st.result    EXCEPT ![k] = "present"],
                                targetArr |-> [st.targetArr EXCEPT ![idx] = null],
                                guessArr  |-> st.guessArr], i + 1)
                      ELSE Pass2Backwards(st, i + 1)

RECURSIVE Pass2(_, _)
Pass2(st, i) ==
    IF i > Len(st.guessArr) THEN st
    ELSE IF st.guessArr[i] = null THEN Pass2(st, i + 1)
    ELSE LET idx == IndexOf(st.targetArr, st.guessArr[i])
         IN  IF idx # -1
             THEN Pass2([result    |-> [st.result    EXCEPT ![i] = "present"],
                         targetArr |-> [st.targetArr EXCEPT ![idx] = null],
                         guessArr  |-> st.guessArr], i + 1)
             ELSE Pass2(st, i + 1)

\* The local arrays as the handler creates them from the uppercased words.
InitArrays(guessUpper, targetUpper) ==
    [result    |-> Fill(Len(guessUpper), "absent"),
     targetArr |-> targetUpper,
     guessArr  |-> guessUpper]

\* Mutation of Evaluate: one left-to-right pass that tests the position and
\* otherwise searches the target at once.
RECURSIVE SinglePass(_, _)
SinglePass(st, i) ==
    IF i > Len(st.guessArr) THEN st
    ELSE IF st.guessArr[i] = At(st.targetArr, i)
         THEN SinglePass([result    |-> [st.result    EXCEPT ![i] = "correct"],
                          targetArr |-> [st.targetArr EXCEPT ![i] = null],
                          guessArr  |-> st.guessArr], i + 1)
         ELSE LET idx == IndexOf(st.targetArr, st.guessArr[i])
              IN  IF idx # -1
                  THEN SinglePass([result    |-> [st.result EXCEPT ![i] = "present"],
                                   targetArr |-> [st.targetArr EXCEPT ![idx] = null],
                                   guessArr  |-> st.guessArr], i + 1)
                  ELSE SinglePass(st, i + 1)

EvaluateSinglePass(guessUpper, targetUpper) ==
    SinglePass(InitArrays(guessUpper, targetUpper), 1)

\* The arrays after both passes.
Evaluate(guessUpper, targetUpper) ==
    Pass2(Pass1(InitArrays(guessUpper, targetUpper), 1), 1)

\* Mutation of Invalid: the lengths are not compared.
InvalidNoLength(guess, target) ==
    Falsy(guess) \/ Falsy(target)

\* Mutation of Invalid: only a missing field is refused, not an empty string.
InvalidAllowEmpty(guess, target) ==
    \/ guess.type \in {"undefined", "null"}
    \/ target.type \in {"undefined", "null"}
    \/ Length(guess) # Length(target)

\* The validation of the request body: TRUE when the handler answers 400.
Invalid(guess, target) ==
    Falsy(guess) \/ Falsy(target) \/ Length(guess) # Length(target)

\* Mutation of GuessResponse: the guess is returned as submitted.
GuessResponseRawGuess(body) ==
    IF Invalid(body.guess, body.target)
    THEN [status |-> 400, body |-> [error |-> "Dati non validi."]]
    ELSE LET guessUpper  == ToUpperCase(body.guess.chars)
             targetUpper == ToUpperCase(body.target.chars)
         IN  [status |-> 200,
              body   |-> [result |-> Evaluate(guessUpper, targetUpper).result,
                          guess  |-> body.guess.chars]]

\* The response of the whole handler.
GuessResponse(body) ==
    IF Invalid(body.guess, body.target)
    THEN [status |-> 400, body |-> [error |-> "Dati non validi."]]
    ELSE LET guessUpper  == ToUpperCase(body.guess.chars)
             targetUpper == ToUpperCase(body.target.chars)
         IN  [status |-> 200,
              body   |-> [result |-> Evaluate(guessUpper, targetUpper).result,
                          guess  |-> guessUpper]]

(***************************************************************************)
(* State machine: one request, handled by one run of the handler.          *)
(***************************************************************************)
VARIABLES
    req,    \* the body of the request being handled
    res,    \* the response sent (status 0: none yet)
    pc,     \* "received" before the handler runs, "responded" after
    route,  \* the route of the request req belongs to
    results,\* the parsed content of data/results.json
    clock,  \* the server's clock, in milliseconds
    log,    \* history: the first answer given to each guess body, and the
            \* number of results stored at that time
    calls,  \* per concurrent caller: its request, position and response
    frames, \* per handler invocation: its local arrays
    state,  \* the client's state object of the round
    pending,\* the client's submitGuess calls waiting at an await
    saved,  \* the saveResult calls the client made, in order
    wordFiles, \* words/words_<n>.txt for n = 5, 6, 8: its lines, if it exists
    db      \* the parsed content of the playlist service's data/db.json

serverVars == <<route, results, clock, log>>

concVars == <<calls, frames>>

roundVars == <<state, pending, saved>>

diskVars == <<wordFiles, db>>

vars == <<req, res, pc, route, results, clock, log, calls, frames,
          state, pending, saved, wordFiles, db>>

\* Number of concurrent callers of POST /api/guess.
NumCallers == 2

Callers == 1..NumCallers

\* No concurrent call has been received.
ConcAtRest ==
    /\ calls = [c \in Callers |-> [phase |-> "idle"]]
    /\ frames = [c \in Callers |-> [unused |-> TRUE]]

\* No round is being played.
\* The client's state object as the script creates it.
InitialState ==
    [screen       |-> "setup",
     difficulty   |-> 0,
     targetWord   |-> <<>>,
     maxAttempts  |-> 0,
     currentRow   |-> 0,
     currentCol   |-> 0,
     currentGuess |-> <<>>,
     gameOver     |-> FALSE,
     won          |-> FALSE,
     history      |-> <<>>]

RoundAtRest ==
    /\ state = InitialState
    /\ pending = [fetching |-> <<>>, revealing |-> <<>>]
    /\ saved = <<>>

\* The word files and the playlist database of a specification that does
\* not read them.
DiskAtRest ==
    /\ wordFiles = [d \in {5, 6, 8} |-> [exists |-> FALSE]]
    /\ db = [users |-> <<>>, playlists |-> <<>>]

\* The server state of a specification that handles guesses only.
ServerAtRest ==
    /\ route = "guess"
    /\ results = <<>>
    /\ clock = 0
    /\ log = {}

noResponse == [status |-> 0, body |-> [error |-> ""]]

Init ==
    /\ req \in [guess : JsValues, target : JsValues]
    /\ res = noResponse
    /\ pc = "received"
    /\ ServerAtRest
    /\ ConcAtRest
    /\ RoundAtRest
    /\ DiskAtRest

PostGuess ==
    /\ pc = "received"
    /\ res' = GuessResponse(req)
    /\ pc' = "responded"
    /\ UNCHANGED req
    /\ UNCHANGED serverVars
    /\ UNCHANGED <<concVars, roundVars, diskVars>>

Next == PostGuess

Spec == Init /\ [][Next]_vars

(***************************************************************************)
(* Vocabulary of the properties                                            *)
(***************************************************************************)

Responded == pc = "responded"

Accepted == Responded /\ res.status = 200

Rejected == Responded /\ res.status = 400 /\ "result" \notin DOMAIN res.body

\* The uppercased words the accepted request was evaluated on.
gU == ToUpperCase(req.guess.chars)

tU == ToUpperCase(req.target.chars)

\* Number of positions of s holding letter L.
Occ(s, L) == Cardinality({ i \in DOMAIN s : s[i] = L })

\* Guess positions holding L whose verdict is one of vs.
Marked(L, vs) == { i \in DOMAIN gU : gU[i] = L /\ res.body.result[i] \in vs }

Letters(s) == { s[i] : i \in DOMAIN s }

BothStrings == req.guess.type = "string" /\ req.target.type = "string"

\* C1: for every letter L of an accepted request, the guess positions
\* holding L that are marked correct or present are at most as many as the
\* occurrences of L in the uppercased target.
DuplicateCountInvariant ==
    Accepted =>
        \A L \in Letters(gU) :
            Cardinality(Marked(L, {"correct", "present"})) <= Occ(tU, L)

\* C1 witness: an accepted guess repeats a letter more often than the target
\* holds it, and the target does hold it.
DuplicateCountWitness ==
    /\ Accepted
    /\ \E L \in Letters(gU) : Occ(tU, L) >= 1 /\ Occ(gU, L) > Occ(tU, L)

\* C2: in an accepted request, every position where the uppercased guess and
\* the uppercased target hold the same letter has the verdict correct.
ExactMatchSoundness ==
    Accepted =>
        \A i \in DOMAIN gU \cap DOMAIN tU :
            gU[i] = tU[i] => res.body.result[i] = "correct"

\* C2 witness: an accepted guess matches the target at one position and
\* holds the same letter again at a position where the target differs.
ExactMatchWitness ==
    /\ Accepted
    /\ \E i, j \in DOMAIN gU \cap DOMAIN tU :
          /\ gU[i] = tU[i]
          /\ gU[j] = gU[i]
          /\ gU[j] # tU[j]
          /\ Occ(tU, gU[i]) >= 2

\* C3: a guess and a target of different lengths are answered 400 with no
\* verdict sequence: no evaluation of truncated or padded words takes place.
LengthGuard ==
    (Responded /\ BothStrings /\ Length(req.guess) # Length(req.target))
        => (Rejected /\ res.body.error # "")

\* C3 witness: two non-empty words of different lengths were rejected.
LengthGuardWitness ==
    /\ Rejected
    /\ BothStrings
    /\ Length(req.guess) >= 1
    /\ Length(req.target) >= 1
    /\ Length(req.guess) # Length(req.target)

\* C4: a missing or empty guess or target is answered 400 with a message and
\* no verdict sequence.
EmptyInputGuard ==
    (Responded /\ (Falsy(req.guess) \/ Falsy(req.target)))
        => (Rejected /\ res.body.error # "")

\* C4 witness: guess and target are both the empty string (equal lengths,
\* so only the emptiness test rejects them).
EmptyInputWitness ==
    /\ Rejected
    /\ req.guess = Str(<<>>)
    /\ req.target = Str(<<>>)

\* C5: a non-empty word evaluated against itself gets correct everywhere.
WinProperty ==
    (Responded /\ BothStrings /\ req.guess = req.target /\ Length(req.guess) >= 1)
        => /\ Accepted
           /\ Len(res.body.result) >= 1
           /\ \A i \in DOMAIN res.body.result : res.body.result[i] = "correct"

\* C5 witness: a word with a repeated letter was evaluated against itself.
WinWitness ==
    /\ Accepted
    /\ req.guess = req.target
    /\ \E L \in Letters(gU) : Occ(gU, L) >= 2

\* Characters that toUpperCase changes.
Lowercase == { c \in Chars \cup UNION { Letters(w) : w \in ScenarioWords } :
                 UpperOfChar(c) # <<c>> }

\* C6 as stated: an accepted request is answered with the fields result and
\* guess; result has one verdict per position of the submitted guess (its
\* length is the guess length), every verdict is correct, present or absent,
\* and guess is the uppercased guess.
ResultShapeAsStated ==
    Accepted =>
        /\ DOMAIN res.body = {"result", "guess"}
        /\ res.body.guess = gU
        /\ Len(res.body.result) = Length(req.guess)
        /\ \A i \in DOMAIN res.body.result : res.body.result[i] \in Verdicts

\* C6, the part that holds: the verdicts are one per position of the
\* uppercased guess returned, which holds no lowercase character; they are
\* one per position of the submitted guess when each of its characters has a
\* one-character uppercase form.
ResultShape ==
    Accepted =>
        /\ DOMAIN res.body = {"result", "guess"}
        /\ res.body.guess = gU
        /\ \A i \in DOMAIN res.body.guess : res.body.guess[i] \notin Lowercase
        /\ Len(res.body.result) = Len(res.body.guess)
        /\ \A i \in DOMAIN res.body.result : res.body.result[i] \in Verdicts
        /\ (\A i \in DOMAIN req.guess.chars :
                Len(UpperOfChar(req.guess.chars[i])) = 1)
              => Len(res.body.result) = Length(req.guess)

\* Witness of that part: an accepted guess held a lowercase letter and all three
\* verdicts occur in its result.
ResultShapeWitness ==
    /\ Accepted
    /\ \E i \in DOMAIN req.guess.chars : req.guess.chars[i] \in Lowercase
    /\ \A v \in Verdicts : \E i \in DOMAIN res.body.result : res.body.result[i] = v

\* Target positions holding L that the guess does not match exactly.
Unmatched(L) == { j \in DOMAIN tU : tU[j] = L /\ At(gU, j) # L }

\* C7: for every letter L the present verdicts on L are at most the target
\* occurrences of L that are not exactly matched; so when every target
\* occurrence of L is exactly matched, every other guess position holding L
\* is absent, also to the left of the match.
PassSeparation ==
    Accepted =>
        \A L \in Letters(gU) :
            /\ Cardinality(Marked(L, {"present"})) <= Cardinality(Unmatched(L))
            /\ Unmatched(L) = {} =>
                  \A i \in DOMAIN gU :
                      (gU[i] = L /\ At(tU, i) # L) => res.body.result[i] = "absent"

\* C7 witness: the only target occurrences of a letter are exactly matched
\* and the guess holds that letter again to the left of such a match.
PassSeparationWitness ==
    /\ Accepted
    /\ \E L \in Letters(gU) :
          /\ Unmatched(L) = {}
          /\ \E i, j \in DOMAIN gU :
                /\ i < j
                /\ gU[i] = L /\ At(tU, i) # L
                /\ gU[j] = L /\ At(tU, j) = L
                /\ res.body.result[i] = "absent"
                /\ res.body.result[j] = "correct"

Scenario(g, t) == Responded /\ req = [guess |-> Str(g), target |-> Str(t)]

\* C8 as stated: NONN against ANNO yields present, correct, absent, absent.
Scenario4AsStated ==
    Scenario(<<"N","O","N","N">>, <<"A","N","N","O">>) =>
        /\ Accepted
        /\ res.body.result = <<"present", "correct", "absent", "absent">>

\* C8 amended: NONN against ANNO yields present, present, correct, absent
\* (the exact match is the third position, N on N; the O is present).
Scenario4 ==
    Scenario(<<"N","O","N","N">>, <<"A","N","N","O">>) =>
        /\ Accepted
        /\ res.body.result = <<"present", "present", "correct", "absent">>

\* C8 witness: NONN against ANNO was evaluated.
Scenario4Witness ==
    Accepted /\ Scenario(<<"N","O","N","N">>, <<"A","N","N","O">>)

\* C9: ROBOT against LIBRO yields present, present, correct, absent, absent.
Scenario3 ==
    Scenario(<<"R","O","B","O","T">>, <<"L","I","B","R","O">>) =>
        /\ Accepted
        /\ res.body.result = <<"present", "present", "correct", "absent", "absent">>

\* C9 witness: ROBOT against LIBRO was evaluated.
Scenario3Witness ==
    Accepted /\ Scenario(<<"R","O","B","O","T">>, <<"L","I","B","R","O">>)

\* The uppercased guess is a permutation of the uppercased target.
IsAnagram ==
    /\ Len(gU) = Len(tU)
    /\ \A L \in Letters(gU) \cup Letters(tU) : Occ(gU, L) = Occ(tU, L)

\* C10: when the guess is a permutation of the target, every position is
\* correct where the letters coincide and present everywhere else.
AnagramProperty ==
    (Accepted /\ IsAnagram) =>
        \A i \in DOMAIN gU :
            res.body.result[i] = IF gU[i] = tU[i] THEN "correct" ELSE "present"

\* C10 witness: an evaluated anagram with a repeated letter, one position
\* coinciding and one not.
AnagramWitness ==
    /\ Accepted
    /\ IsAnagram
    /\ \E L \in Letters(gU) : Occ(gU, L) >= 2
    /\ \E i, j \in DOMAIN gU : gU[i] = tU[i] /\ gU[j] # tU[j]

(***************************************************************************)
(* Reference evaluations the two-pass code is compared with                *)
(***************************************************************************)

\* The frequency-count evaluation of the design notes: cnt maps each letter
\* to its target occurrences not exactly matched; the guess is walked left to
\* right, a non-exact position is present when the count of its letter is
\* positive (and decrements it), absent otherwise.
RECURSIVE FreqWalk(_, _, _, _, _)
FreqWalk(g, t, cnt, i, result) ==
    IF i > Len(g) THEN result
    ELSE IF g[i] = At(t, i)
         THEN FreqWalk(g, t, cnt, i + 1, [result EXCEPT ![i] = "correct"])
    ELSE IF cnt[g[i]] > 0
         THEN FreqWalk(g, t, [cnt EXCEPT ![g[i]] = @ - 1], i + 1,
                       [result EXCEPT ![i] = "present"])
    ELSE FreqWalk(g, t, cnt, i + 1, result)

FreqEvaluate(g, t) ==
    LET cnt == [L \in Letters(g) \cup Letters(t) |->
                   Cardinality({ j \in DOMAIN t : t[j] = L /\ At(g, j) # L })]
    IN  FreqWalk(g, t, cnt, 1, Fill(Len(g), "absent"))

\* C11: the verdicts of the slot-nulling evaluation are those of the
\* frequency-count evaluation, for every accepted pair of words.
ReferenceEquivalence ==
    Accepted => res.body.result = FreqEvaluate(gU, tU)

\* C11 witness: an accepted guess holds a letter more often than the target
\* has it unmatched, so the count runs out, and some position is present.
ReferenceEquivalenceWitness ==
    /\ Accepted
    /\ Len(gU) = Len(tU)
    /\ \E L \in Letters(gU) :
          /\ Unmatched(L) # {}
          /\ Cardinality({ i \in DOMAIN gU : gU[i] = L /\ At(tU, i) # L })
                > Cardinality(Unmatched(L))
    /\ \E i \in DOMAIN res.body.result : res.body.result[i] = "present"

\* Pass 2 with the tie-break left open: the set of array states that result
\* when each present verdict may consume any unconsumed target slot holding
\* the guessed letter.
RECURSIVE Pass2AnySlot(_, _)
Pass2AnySlot(st, i) ==
    IF i > Len(st.guessArr) THEN {st}
    ELSE IF st.guessArr[i] = null THEN Pass2AnySlot(st, i + 1)
    ELSE LET slots == { j \in DOMAIN st.targetArr :
                           st.targetArr[j] = st.guessArr[i] }
         IN  IF slots # {}
             THEN UNION { Pass2AnySlot(
                              [result    |-> [st.result    EXCEPT ![i] = "present"],
                               targetArr |-> [st.targetArr EXCEPT ![j] = null],
                               guessArr  |-> st.guessArr], i + 1) : j \in slots }
             ELSE Pass2AnySlot(st, i + 1)

AnySlotOutcomes == Pass2AnySlot(Pass1(InitArrays(gU, tU), 1), 1)

\* C12: whichever unconsumed slot each present verdict consumes, the verdict
\* sequence is the one the code returns.
TieBreakIndependence ==
    Accepted => \A st \in AnySlotOutcomes : st.result = res.body.result

\* C12 witness: for an accepted request some other choice of slots leaves a
\* different set of nulled target slots than the code's first-found choice.
TieBreakWitness ==
    /\ Accepted
    /\ \E st \in AnySlotOutcomes : st.targetArr # Evaluate(gU, tU).targetArr

\* The submitted words that uppercase to w, and w itself.
SameUpper(w) == { v \in Words \cup {w} : ToUpperCase(v) = w }

\* C13 as stated: the response depends only on the uppercased forms: every
\* body whose guess and target uppercase to the same words as the accepted
\* request gets the same verdicts and the same uppercase guess.
CaseInsensitivityAsStated ==
    Accepted =>
        \A g2 \in SameUpper(gU), t2 \in SameUpper(tU) :
            GuessResponse([guess |-> Str(g2), target |-> Str(t2)]) = res

\* C13, the part that holds: the same for the bodies that differ from the
\* request only in the case of letters, position by position.
CaseVariants(w) ==
    { v \in Words : /\ Len(v) = Len(w)
                    /\ \A i \in DOMAIN v : UpperOfChar(v[i]) = UpperOfChar(w[i]) }

CaseInsensitivity ==
    Accepted =>
        /\ \A g2 \in CaseVariants(req.guess.chars),
              t2 \in CaseVariants(req.target.chars) :
              GuessResponse([guess |-> Str(g2), target |-> Str(t2)]) = res
        /\ \A i \in DOMAIN res.body.guess : res.body.guess[i] \notin Lowercase

\* Witness of that part: the accepted guess has a variant in another case.
CaseInsensitivityWitness ==
    /\ Accepted
    /\ CaseVariants(req.guess.chars) # {req.guess.chars}
    /\ CaseVariants(req.target.chars) # {req.target.chars}

(***************************************************************************)
(* The server with its results file: POST /api/guess, POST /api/results    *)
(* and GET /api/leaderboard, each handled in one synchronous step.         *)
(***************************************************************************)

\* Most records the results file holds.
MaxResults == 3

\* Last value of the clock.
MaxClock == 1

\* The default of the limit query parameter.
DefaultLimit == 20

\* Bodies of POST /api/results: won games with attempts and time to rank, a
\* lost game that would rank first, a finished game whose body has no won
\* field, and bodies the validation refuses.
WordPlayed == <<"S","T","A","R","E">>

Ann == <<"a", "n", "n">>

BoPadded == <<" ", "b", "o", " ">>

ResultBodies ==
    { [player |-> Str(Ann), word |-> Str(WordPlayed), attempts |-> a, time |-> t,
       difficulty |-> 5, won |-> TRUE] : a \in {1, 2}, t \in {1, 2} }
    \cup
    { [player |-> Str(BoPadded), word |-> Str(WordPlayed), attempts |-> 1, time |-> 1,
       difficulty |-> 5, won |-> FALSE],
      [player |-> Str(Ann), word |-> Str(WordPlayed), attempts |-> 1, time |-> 1,
       difficulty |-> 5],
      [word |-> Str(WordPlayed), attempts |-> 1, time |-> 1, difficulty |-> 5,
       won |-> TRUE],
      [player |-> Str(<<>>), word |-> Str(WordPlayed), attempts |-> 1, time |-> 1,
       difficulty |-> 5, won |-> TRUE],
      [player |-> Str(Ann), word |-> Str(WordPlayed), time |-> 1, difficulty |-> 5,
       won |-> TRUE],
      [player |-> Str(Ann), word |-> Str(WordPlayed), attempts |-> 1, difficulty |-> 5,
       won |-> TRUE],
      [player |-> Str(Ann), attempts |-> 1, time |-> 1, difficulty |-> 5,
       won |-> TRUE] }

\* !body.f : the field is missing or its value is falsy.
FalsyField(body, f) == f \notin DOMAIN body \/ Falsy(body[f])

\* String.prototype.trim: the spaces at both ends are removed.
RECURSIVE TrimStart(_)
TrimStart(p) ==
    IF p # <<>> /\ Head(p) = " " THEN TrimStart(Tail(p)) ELSE p

RECURSIVE TrimEnd(_)
TrimEnd(p) ==
    IF p # <<>> /\ p[Len(p)] = " " THEN TrimEnd(SubSeq(p, 1, Len(p) - 1)) ELSE p

Trim(p) == TrimEnd(TrimStart(p))

\* The validation of POST /api/results: TRUE when it answers 400.
ResultsInvalid(body) ==
    \/ FalsyField(body, "player")
    \/ FalsyField(body, "word")
    \/ "attempts" \notin DOMAIN body
    \/ "time" \notin DOMAIN body

\* newRecord; a field the body lacks is undefined and JSON drops it.
NewRecord(body, now) ==
    [f \in DOMAIN body \cap {"difficulty", "won"} |-> body[f]]
    @@ [id |-> now, player |-> Str(Trim(body.player.chars)), word |-> body.word,
        attempts |-> body.attempts, time |-> body.time, date |-> now]

\* r.won as a condition.
Won(r) == "won" \in DOMAIN r /\ r.won = TRUE

\* Mutation of Compare: the time does not break a tie.
CompareAttemptsOnly(a, b) == a.attempts - b.attempts

\* The comparator of the leaderboard.
Compare(a, b) ==
    IF a.attempts # b.attempts THEN a.attempts - b.attempts
    ELSE a.time - b.time

\* Array.prototype.sort with the comparator: a stable sort, here by
\* inserting each element after the elements that do not come after it.
RECURSIVE Insert(_, _)
Insert(s, x) ==
    IF s = <<>> THEN <<x>>
    ELSE IF Compare(Head(s), x) <= 0 THEN <<Head(s)>> \o Insert(Tail(s), x)
    ELSE <<x>> \o s

RECURSIVE Sort(_)
Sort(s) ==
    IF s = <<>> THEN <<>>
    ELSE Insert(Sort(SubSeq(s, 1, Len(s) - 1)), s[Len(s)])

\* arr.slice(0, end): a negative end counts from the end of the array.
Slice0(arr, end) ==
    LET stop == IF end < 0 THEN (IF Len(arr) + end < 0 THEN 0 ELSE Len(arr) + end)
                ELSE IF end > Len(arr) THEN Len(arr) ELSE end
    IN  SubSeq(arr, 1, stop)

\* parseInt on a query parameter: an optional sign and the leading decimal
\* digits; NaN when there is none or the parameter is missing.
DigitValue(c) ==
    CASE c = "0" -> 0 [] c = "1" -> 1 [] c = "2" -> 2 [] c = "3" -> 3
      [] c = "4" -> 4 [] c = "5" -> 5 [] c = "6" -> 6 [] c = "7" -> 7
      [] c = "8" -> 8 [] c = "9" -> 9

IsDigit(c) == c \in {"0", "1", "2", "3", "4", "5", "6", "7", "8", "9"}

NaN == [nan |-> TRUE]

Num(n) == [nan |-> FALSE, val |-> n]

RECURSIVE LeadingDigits(_, _)
LeadingDigits(s, acc) ==
    IF s = <<>> \/ ~IsDigit(Head(s)) THEN acc
    ELSE LeadingDigits(Tail(s), acc * 10 + DigitValue(Head(s)))

ParseInt(v) ==
    IF v.type # "string" \/ v.chars = <<>> THEN NaN
    ELSE LET signed == Head(v.chars) \in {"-", "+"}
             digits == IF signed THEN Tail(v.chars) ELSE v.chars
         IN  IF digits = <<>> \/ ~IsDigit(Head(digits)) THEN NaN
             ELSE IF Head(v.chars) = "-" THEN Num(0 - LeadingDigits(digits, 0))
             ELSE Num(LeadingDigits(digits, 0))

\* n || d : NaN and 0 are falsy.
OrDefault(n, d) == IF n.nan \/ n.val = 0 THEN d ELSE n.val

\* The values of req.query.limit tried.
LimitParams ==
    {undefined} \cup
    { Str(w) : w \in { <<"0">>, <<"1">>, <<"2">>, <<"-", "1">>, <<"2", "x">>,
                       <<"x">> } }

\* The body of GET /api/leaderboard's response.
Leaderboard(stored, limitParam) ==
    Slice0(Sort(SelectSeq(stored, Won)), OrDefault(ParseInt(limitParam), DefaultLimit))

\* The bodies of POST /api/guess sent to the server with the results file.
ServerGuessBodies ==
    { [guess |-> Str(<<"N", "n", "A">>), target |-> Str(<<"A", "N", "N">>)],
      [guess |-> Str(<<"A">>), target |-> Str(<<"A", "N">>)] }

\* The bodies of POST /api/results sent between guesses.
ServerResultBodies ==
    { b \in ResultBodies :
        ("attempts" \in DOMAIN b /\ b.attempts = 1) /\ "time" \in DOMAIN b
        /\ "won" \in DOMAIN b /\ "player" \in DOMAIN b /\ "word" \in DOMAIN b }

ServerInit ==
    /\ req = [none |-> TRUE]
    /\ res = noResponse
    /\ pc = "listening"
    /\ route = "none"
    /\ results = <<>>
    /\ clock = 0
    /\ log = {}
    /\ ConcAtRest
    /\ RoundAtRest
    /\ DiskAtRest

\* The history after answering body with response: the first answer to a
\* body is kept.
Logged(body, response) ==
    IF \E e \in log : e.body = body THEN log
    ELSE log \cup {[body |-> body, response |-> response, stored |-> Len(results)]}

\* Mutation of ServerPostGuess: the verdicts are also appended to the stored
\* results.
ServerPostGuessStoring(body) ==
    /\ Len(results) < MaxResults
    /\ route' = "guess"
    /\ req' = body
    /\ res' = GuessResponse(body)
    /\ log' = Logged(body, res')
    /\ results' = Append(results, res'.body)
    /\ UNCHANGED <<clock, pc, concVars, roundVars, diskVars>>

\* Mutation of ServerPostGuess: once a result is stored, the answer is the
\* one for the guess in the stored word's place.
ServerPostGuessStateful(body) ==
    /\ route' = "guess"
    /\ req' = body
    /\ res' = IF results = <<>> THEN GuessResponse(body)
              ELSE GuessResponse([guess |-> body.target, target |-> body.target])
    /\ log' = Logged(body, res')
    /\ UNCHANGED <<results, clock, pc, concVars, roundVars, diskVars>>

\* POST /api/guess on the server with the results file.
ServerPostGuess(body) ==
    /\ route' = "guess"
    /\ req' = body
    /\ res' = GuessResponse(body)
    /\ log' = Logged(body, res')
    /\ UNCHANGED <<results, clock, pc, concVars, roundVars, diskVars>>

\* POST /api/results.  player.trim() of a player that is not a string
\* throws, and the error handler answers 500.
PostResults(body) ==
    /\ route' = "results"
    /\ req' = body
    /\ IF ResultsInvalid(body)
       THEN /\ res' = [status |-> 400, body |-> [error |-> "Dati mancanti."]]
            /\ UNCHANGED results
       ELSE IF body.player.type # "string"
       THEN /\ res' = [status |-> 500,
                       body   |-> [error |-> "Errore interno del server."]]
            /\ UNCHANGED results
       ELSE /\ Len(results) < MaxResults
            /\ results' = Append(results, NewRecord(body, clock))
            /\ res' = [status |-> 201,
                       body   |-> [message |-> "Risultato salvato!",
                                   record  |-> NewRecord(body, clock)]]
    /\ UNCHANGED <<clock, log, pc, concVars, roundVars, diskVars>>

\* GET /api/leaderboard.
GetLeaderboard(limitParam) ==
    /\ route' = "leaderboard"
    /\ req' = [limit |-> limitParam]
    /\ res' = [status |-> 200, body |-> Leaderboard(results, limitParam)]
    /\ UNCHANGED <<results, clock, log, pc, concVars, roundVars, diskVars>>

\* Time passes on the server.
Tick ==
    /\ clock < MaxClock
    /\ clock' = clock + 1
    /\ UNCHANGED <<req, res, pc, route, results, log, concVars, roundVars, diskVars>>

\* Guesses interleaved with saved results.
ServerNext ==
    \/ \E body \in ServerGuessBodies : ServerPostGuess(body)
    \/ \E body \in ServerResultBodies : PostResults(body)
    \/ Tick

SpecServer == ServerInit /\ [][ServerNext]_vars

\* The bodies of POST /api/results sent before the leaderboard is read: the
\* won games, the lost game and a body without player.
BoardResultBodies ==
    { b \in ResultBodies :
        /\ {"word", "attempts", "time", "won"} \subseteq DOMAIN b
        /\ "player" \in DOMAIN b => b.player # Str(<<>>) }

\* Saved results and the leaderboard read from them.
BoardNext ==
    \/ \E body \in BoardResultBodies : PostResults(body)
    \/ \E limitParam \in LimitParams : GetLeaderboard(limitParam)
    \/ Tick

SpecBoard == ServerInit /\ [][BoardNext]_vars

GuessFrame ==
    /\ [][route' = "guess" => results' = results]_vars
    /\ [](\A i \in DOMAIN results : "result" \notin DOMAIN results[i])

\* C15 witness: an accepted guess was handled while results were stored.
GuessFrameWitness ==
    /\ route = "guess"
    /\ res.status = 200
    /\ results # <<>>

\* Positions of the stored results that are won games.
WonStored == { i \in DOMAIN results : Won(results[i]) }

\* C19: the leaderboard holds won games only, each a stored record, in
\* ascending order of attempts and, for equal attempts, of time; without a
\* limit (and at most DefaultLimit won games) it holds every won game.
LeaderboardOrder ==
    route = "leaderboard" =>
        /\ \A i \in DOMAIN res.body :
              /\ Won(res.body[i])
              /\ \E k \in WonStored : results[k] = res.body[i]
        /\ \A i, j \in DOMAIN res.body :
              i < j =>
                 \/ res.body[i].attempts < res.body[j].attempts
                 \/ /\ res.body[i].attempts = res.body[j].attempts
                    /\ res.body[i].time <= res.body[j].time
        /\ (req.limit = undefined /\ Cardinality(WonStored) <= DefaultLimit)
              => Len(res.body) = Cardinality(WonStored)

\* C19 witness: a leaderboard of two games with the same attempts and
\* different times, read from results that hold a lost game and store the
\* two games in the other order.
LeaderboardWitness ==
    /\ route = "leaderboard"
    /\ Len(res.body) = 2
    /\ \E i \in DOMAIN results : ~Won(results[i])
    /\ res.body[1].attempts = res.body[2].attempts
    /\ res.body[1].time < res.body[2].time
    /\ res.body # SelectSeq(results, Won)

\* The whole ordering of the won games.
FullBoard == Sort(SelectSeq(results, Won))

\* C20 as stated: for a limit of n >= 0 the leaderboard is the first n
\* records of the ordering (at most n records), and without a limit it has
\* at most 20 records.
LimitAsStated ==
    route = "leaderboard" =>
        LET n == ParseInt(req.limit)
        IN  IF req.limit = undefined THEN Len(res.body) <= 20
            ELSE (~n.nan /\ n.val >= 0) =>
                    /\ Len(res.body) <= n.val
                    /\ res.body = SubSeq(FullBoard, 1, Len(res.body))

\* C20, the part that holds: the same for a limit of n >= 1.
LimitPositive ==
    route = "leaderboard" =>
        LET n == ParseInt(req.limit)
        IN  IF req.limit = undefined THEN Len(res.body) <= 20
            ELSE (~n.nan /\ n.val >= 1) =>
                    /\ Len(res.body) <= n.val
                    /\ res.body = SubSeq(FullBoard, 1, Len(res.body))
                    /\ Len(res.body) < n.val => res.body = FullBoard

\* Witness of that part: a limit of 1 cut a longer ordering.
LimitPositiveWitness ==
    /\ route = "leaderboard"
    /\ req.limit = Str(<<"1">>)
    /\ Len(res.body) = 1
    /\ Len(FullBoard) >= 2

(***************************************************************************)
(* Concurrent callers of POST /api/guess.  Node runs a handler to its end  *)
(* before the next one starts; here the handlers advance one loop          *)
(* iteration at a time in any interleaving, which includes every schedule  *)
(* Node produces.  result, targetArr and guessArr are const bindings of    *)
(* the handler's body: every invocation has its own.                       *)
(***************************************************************************)

\* The bodies the concurrent callers send.
ConcBodies ==
    { [guess |-> Str(<<"N", "n", "A">>), target |-> Str(<<"A", "N", "N">>)],
      [guess |-> Str(<<"A", "A", "N">>), target |-> Str(<<"N", "A", "N">>)],
      [guess |-> Str(<<"A", "N">>), target |-> Str(<<"A", "N", "N">>)] }

\* Mutation of FrameOf: the arrays are module-level variables that all
\* invocations share.
FrameOfShared(c) == 1

\* The arrays invocation c works on: its own.
FrameOf(c) == c

\* One iteration of the first loop, at index i.
Pass1Iter(st, i) ==
    IF st.guessArr[i] = At(st.targetArr, i)
    THEN [result    |-> [st.result    EXCEPT ![i] = "correct"],
          targetArr |-> [st.targetArr EXCEPT ![i] = null],
          guessArr  |-> [st.guessArr  EXCEPT ![i] = null]]
    ELSE st

\* One iteration of the second loop, at index i.
Pass2Iter(st, i) ==
    IF st.guessArr[i] = null THEN st
    ELSE LET idx == IndexOf(st.targetArr, st.guessArr[i])
         IN  IF idx # -1
             THEN [result    |-> [st.result    EXCEPT ![i] = "present"],
                   targetArr |-> [st.targetArr EXCEPT ![idx] = null],
                   guessArr  |-> st.guessArr]
             ELSE st

ConcInit ==
    /\ req = [none |-> TRUE]
    /\ res = noResponse
    /\ pc = "listening"
    /\ ServerAtRest
    /\ ConcAtRest
    /\ RoundAtRest
    /\ DiskAtRest

\* Caller c's request arrives: validation, uppercasing, the three arrays.
Receive(c, body) ==
    /\ calls[c].phase = "idle"
    /\ IF Invalid(body.guess, body.target)
       THEN /\ calls' = [calls EXCEPT ![c] =
                           [phase |-> "done", body |-> body,
                            response |-> [status |-> 400,
                                          body |-> [error |-> "Dati non validi."]]]]
            /\ UNCHANGED frames
       ELSE /\ calls' = [calls EXCEPT ![c] =
                           [phase |-> "pass1", body |-> body, i |-> 1,
                            guessUpper |-> ToUpperCase(body.guess.chars)]]
            /\ frames' = [frames EXCEPT ![FrameOf(c)] =
                            InitArrays(ToUpperCase(body.guess.chars),
                                       ToUpperCase(body.target.chars))]
    /\ UNCHANGED <<req, res, pc, serverVars, roundVars, diskVars>>

\* One iteration of caller c's first loop, or its end.
StepPass1(c) ==
    /\ calls[c].phase = "pass1"
    /\ LET st == frames[FrameOf(c)]
           i  == calls[c].i
       IN  IF i > Len(st.guessArr)
           THEN /\ calls' = [calls EXCEPT ![c].phase = "pass2", ![c].i = 1]
                /\ UNCHANGED frames
           ELSE /\ frames' = [frames EXCEPT ![FrameOf(c)] = Pass1Iter(st, i)]
                /\ calls' = [calls EXCEPT ![c].i = i + 1]
    /\ UNCHANGED <<req, res, pc, serverVars, roundVars, diskVars>>

\* One iteration of caller c's second loop, or its end.
StepPass2(c) ==
    /\ calls[c].phase = "pass2"
    /\ LET st == frames[FrameOf(c)]
           i  == calls[c].i
       IN  IF i > Len(st.guessArr)
           THEN /\ calls' = [calls EXCEPT ![c].phase = "respond"]
                /\ UNCHANGED frames
           ELSE /\ frames' = [frames EXCEPT ![FrameOf(c)] = Pass2Iter(st, i)]
                /\ calls' = [calls EXCEPT ![c].i = i + 1]
    /\ UNCHANGED <<req, res, pc, serverVars, roundVars, diskVars>>

\* res.json({ result, guess: guessUpper }) of caller c.
Respond(c) ==
    /\ calls[c].phase = "respond"
    /\ calls' = [calls EXCEPT ![c] =
                    [phase |-> "done", body |-> calls[c].body,
                     response |-> [status |-> 200,
                                   body |-> [result |-> frames[FrameOf(c)].result,
                                             guess  |-> calls[c].guessUpper]]]]
    /\ UNCHANGED frames
    /\ UNCHANGED <<req, res, pc, serverVars, roundVars, diskVars>>

ConcNext ==
    \E c \in Callers :
        \/ \E body \in ConcBodies : Receive(c, body)
        \/ StepPass1(c)
        \/ StepPass2(c)
        \/ Respond(c)

SpecConc == ConcInit /\ [][ConcNext]_vars

\* C16: whatever the interleaving, a caller's response is the one the
\* handler gives to its request run alone.
ConcurrentCallSafety ==
    \A c \in Callers :
        calls[c].phase = "done" => calls[c].response = GuessResponse(calls[c].body)

\* C16 witness: a caller got verdicts with a present in them while another
\* caller, with another body, was in its second loop with a slot consumed.
ConcurrentCallWitness ==
    \E c, d \in Callers :
        /\ calls[c].phase = "done"
        /\ calls[c].response.status = 200
        /\ \E i \in DOMAIN calls[c].response.body.result :
              calls[c].response.body.result[i] = "present"
        /\ calls[d].phase = "pass2"
        /\ calls[d].body # calls[c].body
        /\ \E j \in DOMAIN frames[FrameOf(d)].targetArr :
              frames[FrameOf(d)].targetArr[j] = null

(***************************************************************************)
(* A round in the browser.  The English-named client (state.currentRow,    *)
(* submitGuess) and the Italian-named one (rigaCorrente, inviaTentativo)   *)
(* have the same structure; the names here are those of the first.  An     *)
(* async function runs up to its next await, so submitGuess is three       *)
(* steps: the call up to the fetch, the response up to revealRow, and the  *)
(* rest once the animation's promise resolves.  The timer, the keyboard    *)
(* colours and the result screen are left out.                             *)
(***************************************************************************)

\* Submissions that may be in flight at once.
MaxPending == 2

\* The word lengths of the three difficulty cards.
Difficulties == {5, 6, 8}

\* state.maxAttempts for a difficulty.
MaxAttemptsOf(d) == IF d = 5 THEN 6 ELSE IF d = 6 THEN 7 ELSE 8

\* The word GET /api/word draws for a difficulty.
TargetOf(d) ==
    IF d = 5 THEN <<"S", "T", "A", "R", "E">>
    ELSE IF d = 6 THEN <<"P", "A", "R", "O", "L", "E">>
    ELSE <<"G", "I", "A", "R", "D", "I", "N", "O">>

\* The words the player types in a round: the target and a word that
\* differs from it in the last letter.
RoundWords(d) ==
    { TargetOf(d), [TargetOf(d) EXCEPT ![d] = "A"] }

RoundLetters == { "S", "T", "A", "R", "E", "P", "O", "L", "G", "I", "D", "N" }

IsPrefix(p, w) == Len(p) <= Len(w) /\ SubSeq(w, 1, Len(p)) = p

\* data.result.every(r => r === 'correct')
IsWon(result) == \A i \in DOMAIN result : result[i] = "correct"

InFlight == Len(pending.fetching) + Len(pending.revealing)

RemoveAt(q, k) == SubSeq(q, 1, k - 1) \o SubSeq(q, k + 1, Len(q))

RoundInit ==
    /\ req = [none |-> TRUE]
    /\ res = noResponse
    /\ pc = "listening"
    /\ ServerAtRest
    /\ ConcAtRest
    /\ RoundAtRest
    /\ DiskAtRest

\* A difficulty card and INIZIA PARTITA: the word arrives, initGrid resets
\* the round.
StartGame(d) ==
    /\ state.screen = "setup"
    /\ state' = [InitialState EXCEPT !.screen = "game",
                                     !.difficulty = d,
                                     !.maxAttempts = MaxAttemptsOf(d),
                                     !.targetWord = TargetOf(d)]
    /\ UNCHANGED <<pending, saved>>
    /\ UNCHANGED <<req, res, pc, serverVars, concVars, diskVars>>

\* Mutation of AddLetterTo: a full row is not tested.
AddLetterToFullRow(st, letter) ==
    IF st.currentRow >= st.maxAttempts
    THEN [st EXCEPT !.currentGuess = Append(@, letter)]
    ELSE [st EXCEPT !.currentGuess = Append(@, letter),
                    !.currentCol = @ + 1]

\* addLetter: nothing on a full row; else the letter is pushed, the tile of
\* the current row written and the column advanced.  On a row the grid does
\* not have, writing the tile throws after the push and before the
\* increment.
AddLetterTo(st, letter) ==
    IF st.currentCol >= st.difficulty THEN st
    ELSE IF st.currentRow >= st.maxAttempts
    THEN [st EXCEPT !.currentGuess = Append(@, letter)]
    ELSE [st EXCEPT !.currentGuess = Append(@, letter),
                    !.currentCol = @ + 1]

\* deleteLetter: nothing on an empty row; else the column goes back and the
\* last letter is popped.
DeleteLetterFrom(st) ==
    IF st.currentCol <= 0 THEN st
    ELSE [st EXCEPT !.currentCol = @ - 1,
                    !.currentGuess = SubSeq(@, 1, Len(@) - 1)]

\* Mutation of RequestsOf: a short row is sent too.
RequestsOfAnyRow(st) ==
    <<[guess |-> Str(st.currentGuess), target |-> Str(st.targetWord)]>>

\* submitGuess up to its fetch: the requests it sends, none for a short row.
RequestsOf(st) ==
    IF st.currentCol < st.difficulty THEN <<>>
    ELSE <<[guess |-> Str(st.currentGuess), target |-> Str(st.targetWord)]>>

\* handleKey with a letter, then addLetter.  The letters typed continue a
\* word of the round; on a full row any letter is typed.
AddLetter(letter) ==
    /\ state.screen = "game"
    /\ ~state.gameOver
    /\ \/ state.currentCol >= state.difficulty
       \/ \E w \in RoundWords(state.difficulty) :
             IsPrefix(Append(state.currentGuess, letter), w)
    /\ state' = AddLetterTo(state, letter)
    /\ UNCHANGED <<pending, saved>>
    /\ UNCHANGED <<req, res, pc, serverVars, concVars, diskVars>>

\* handleKey with the backspace key, then deleteLetter.
DeleteLetter ==
    /\ state.screen = "game"
    /\ ~state.gameOver
    /\ state' = DeleteLetterFrom(state)
    /\ UNCHANGED <<pending, saved>>
    /\ UNCHANGED <<req, res, pc, serverVars, concVars, diskVars>>

\* handleKey with INVIO, then submitGuess up to its fetch.  A short row
\* only shows a message.
SubmitGuess ==
    /\ state.screen = "game"
    /\ ~state.gameOver
    /\ InFlight < MaxPending
    /\ pending' = [pending EXCEPT !.fetching = @ \o RequestsOf(state)]
    /\ UNCHANGED <<state, saved>>
    /\ UNCHANGED <<req, res, pc, serverVars, concVars, diskVars>>

\* The response to the k-th request in flight arrives (requests are
\* independent, so in any order): submitGuess from the fetch to revealRow.
\* A response that is not ok ends the call.  revealRow of a row the grid
\* does not have throws in its timers and its promise never resolves.
FetchReturn(k) ==
    /\ k \in DOMAIN pending.fetching
    /\ LET response == GuessResponse(pending.fetching[k])
           rest     == RemoveAt(pending.fetching, k)
       IN  IF response.status # 200 \/ state.currentRow >= state.maxAttempts
           THEN pending' = [pending EXCEPT !.fetching = rest]
           ELSE pending' = [fetching  |-> rest,
                            revealing |-> Append(pending.revealing,
                                            [rowIdx |-> state.currentRow,
                                             result |-> response.body.result,
                                             guess  |-> response.body.guess])]
    /\ UNCHANGED <<state, saved>>
    /\ UNCHANGED <<req, res, pc, serverVars, concVars, diskVars>>

\* The body saveResult(won) posts.
SavedBody(st, won) ==
    [word |-> st.targetWord, attempts |-> st.currentRow,
     difficulty |-> st.difficulty, won |-> won]

\* submitGuess after revealRow: the state it leaves and the result it saves.
Continue(st, result) ==
    LET next == [st EXCEPT !.history = Append(@, result),
                           !.currentRow = @ + 1,
                           !.currentCol = 0,
                           !.currentGuess = <<>>]
    IN  IF IsWon(result)
        THEN [state |-> [next EXCEPT !.gameOver = TRUE, !.won = TRUE],
              saved |-> <<SavedBody(next, TRUE)>>]
        ELSE IF next.currentRow >= next.maxAttempts
        THEN [state |-> [next EXCEPT !.gameOver = TRUE, !.won = FALSE],
              saved |-> <<SavedBody(next, FALSE)>>]
        ELSE [state |-> next, saved |-> <<>>]

\* The oldest animation ends (all rows are as long, so the animations end
\* in the order they began) and its submitGuess runs to its end.
RevealDone ==
    /\ pending.revealing # <<>>
    /\ LET after == Continue(state, Head(pending.revealing).result)
       IN  /\ state' = after.state
           /\ saved' = saved \o after.saved
    /\ pending' = [pending EXCEPT !.revealing = Tail(@)]
    /\ UNCHANGED <<req, res, pc, serverVars, concVars, diskVars>>

RoundNext ==
    \/ \E d \in Difficulties : StartGame(d)
    \/ \E letter \in RoundLetters : AddLetter(letter)
    \/ DeleteLetter
    \/ SubmitGuess
    \/ \E k \in 1..MaxPending : FetchReturn(k)
    \/ RevealDone

SpecRound == RoundInit /\ [][RoundNext]_vars

\* A submitGuess ran to its end in this step.
Evaluated == Len(state'.history) = Len(state.history) + 1

\* This step marked the round finished and won.
MarkedWon ==
    /\ state'.gameOver /\ state'.won
    /\ Len(saved') = Len(saved) + 1
    /\ saved'[Len(saved')].won

\* In this step the answer to a request arrived, with all verdicts correct.
WinningReturned ==
    \E k \in DOMAIN pending.fetching :
        /\ pending'.fetching = RemoveAt(pending.fetching, k)
        /\ LET response == GuessResponse(pending.fetching[k])
           IN  response.status = 200 /\ IsWon(response.body.result)

\* In this step submitGuess went on to reveal verdicts that are all correct.
TakenIn ==
    /\ Len(pending'.revealing) = Len(pending.revealing) + 1
    /\ IsWon(pending'.revealing[Len(pending'.revealing)].result)

\* The round is marked finished and won.
RoundWon == state.gameOver /\ state.won

\* C17, as stated: the round is marked finished and won exactly when the
\* verdicts returned for a submitted guess are all correct: a returned row
\* of correct verdicts goes on to be evaluated unless the round is won
\* already, the step that evaluates a row marks the round won exactly when
\* the row is all correct, and a round is finished and won only with such
\* a row in its history.
WinConditionAsStated ==
    /\ [][WinningReturned => TakenIn \/ RoundWon]_vars
    /\ [][Evaluated => (MarkedWon <=> IsWon(state'.history[Len(state'.history)]))]_vars
    /\ [](state.gameOver /\ state.won =>
             \E i \in DOMAIN state.history : IsWon(state.history[i]))

\* The part of C17 that holds: the step that evaluates a row marks the
\* round finished and won exactly when the row is all correct, and a round
\* is finished and won only with such a row in its history.
WinCondition ==
    /\ [][Evaluated => (MarkedWon <=> IsWon(state'.history[Len(state'.history)]))]_vars
    /\ [](state.gameOver /\ state.won =>
             \E i \in DOMAIN state.history : IsWon(state.history[i]))

\* A round won at its second guess, after a first row with an
\* absent in it.
WinConditionWitness ==
    /\ state.gameOver /\ state.won
    /\ Len(state.history) = 2
    /\ \E i \in DOMAIN state.history[1] : state.history[1][i] = "absent"
    /\ IsWon(state.history[2])
    /\ saved = <<SavedBody(state, TRUE)>>

\* C18, as stated: six, seven and eight attempts; never more evaluated
\* guesses than that; a round without a winning guess is over exactly when
\* the evaluated guesses have reached the maximum.
AttemptLimitAsStated ==
    state.screen = "game" =>
        /\ state.maxAttempts = (CASE state.difficulty = 5 -> 6
                                  [] state.difficulty = 6 -> 7
                                  [] state.difficulty = 8 -> 8)
        /\ state.currentRow <= state.maxAttempts
        /\ (\A i \in DOMAIN state.history : ~IsWon(state.history[i])) =>
              (state.gameOver /\ ~state.won <=> state.currentRow >= state.maxAttempts)

\* The parts of C18 that hold: the table of attempts, and a round without a
\* winning guess being over exactly from the maximum on.
AttemptTable ==
    state.screen = "game" =>
        /\ state.maxAttempts = (CASE state.difficulty = 5 -> 6
                                  [] state.difficulty = 6 -> 7
                                  [] state.difficulty = 8 -> 8)
        /\ (\A i \in DOMAIN state.history : ~IsWon(state.history[i])) =>
              (state.gameOver /\ ~state.won <=> state.currentRow >= state.maxAttempts)

AttemptTableWitness ==
    /\ state.screen = "game"
    /\ state.difficulty = 5
    /\ state.currentRow = 6
    /\ state.gameOver /\ ~state.won
    /\ saved = <<SavedBody(state, FALSE)>>

\* A round gone past its maximum: the last row was sent twice.
AttemptLimitExceeded ==
    /\ state.screen = "game"
    /\ state.currentRow > state.maxAttempts
    /\ Len(saved) = 2

(***************************************************************************)
(* The results file under every kind of POST /api/results body.            *)
(***************************************************************************)

\* Bodies of POST /api/results: those of ResultBodies with one attempt in
\* one second, and a body whose player is a number.
StoredResultBodies ==
    { b \in ResultBodies :
        /\ "attempts" \in DOMAIN b => b.attempts = 1
        /\ "time" \in DOMAIN b => b.time = 1 }
    \cup
    { [player |-> JsNumber(7), word |-> Str(WordPlayed), attempts |-> 1,
       time |-> 1, difficulty |-> 5, won |-> TRUE] }

\* Every request that reads or writes the results file, and guesses.
ResultsNext ==
    \/ \E body \in StoredResultBodies : PostResults(body)
    \/ \E body \in { b \in ServerGuessBodies : ~Invalid(b.guess, b.target) } :
          ServerPostGuess(body)
    \/ GetLeaderboard(undefined)
    \/ Tick

SpecResults == ServerInit /\ [][ResultsNext]_vars

\* The body lacks what the claim requires: player or word missing (or
\* empty), attempts or time undefined.
MissingData(body) ==
    \/ "player" \notin DOMAIN body \/ body.player = Str(<<>>)
    \/ "word" \notin DOMAIN body \/ body.word = Str(<<>>)
    \/ "attempts" \notin DOMAIN body
    \/ "time" \notin DOMAIN body

\* This step handled a POST /api/results.
ResultsHandled == route' = "results" /\ clock' = clock

\* The stored results keep every record they had, in place.
AppendOnly ==
    /\ Len(results') >= Len(results)
    /\ SubSeq(results', 1, Len(results)) = results

\* C21, as stated: a body with missing data is answered 400 and stores
\* nothing; every other body is answered 201 and stores exactly one record,
\* the one returned, after the records there were; no step removes or
\* rewrites a stored record.
ResultsSavedAsStated ==
    /\ [][ResultsHandled =>
            IF MissingData(req')
            THEN res'.status = 400 /\ results' = results
            ELSE /\ res'.status = 201
                 /\ results' = Append(results, res'.body.record)]_vars
    /\ [][AppendOnly]_vars

\* The part of C21 that holds: the same for the bodies whose player, when
\* given, is a string.
ResultsSaved ==
    /\ [][(ResultsHandled /\ ("player" \in DOMAIN req' => req'.player.type = "string")) =>
            IF MissingData(req')
            THEN res'.status = 400 /\ results' = results
            ELSE /\ res'.status = 201
                 /\ results' = Append(results, res'.body.record)]_vars
    /\ [][AppendOnly]_vars

\* Witness of that part: a record was stored after another one, and the
\* response returned it.
ResultsSavedWitness ==
    /\ route = "results"
    /\ res.status = 201
    /\ Len(results) >= 2
    /\ results[Len(results)] = res.body.record
    /\ results[Len(results)].player = Str(<<"b", "o">>)

\* C22, as stated: no two stored records have the same id.
UniqueIdsAsStated ==
    \A i, j \in DOMAIN results : i # j => results[i].id # results[j].id

\* What holds of the ids: a record's id is the time it was stored at, so
\* the ids never decrease along the file, and two records stored at
\* different times differ in id.
IdsInTimeOrder ==
    \A i, j \in DOMAIN results :
        /\ i < j => results[i].id <= results[j].id
        /\ results[i].date # results[j].date => results[i].id # results[j].id

\* Witness of that: records stored before and after the clock advanced.
IdsInTimeOrderWitness ==
    /\ Len(results) >= 2
    /\ results[1].id < results[Len(results)].id

(***************************************************************************)
(* GET /api/word: a random word of the difficulty's file.                  *)
(***************************************************************************)

\* Most lines a word file has.
MaxLines == 2

\* The lines a word file is made of: words of 5, 6 and 8 letters, in lower
\* case or with spaces around, words that change length in upper case, and
\* an empty line.
LinePool ==
    { <<"A", "N", "N", "A", "n">>,
      <<" ", "A", "N", "N", "A", "N", " ">>,
      <<"A", "N", "N", "ß">>,
      <<"A", "N", "N", "A", "ß">>,
      <<"n", "A", "N", "N", "A", "N", "N", "A">>,
      <<>> }

FileContents == UNION { [1..n -> LinePool] : n \in 0..MaxLines }

\* The values of req.query.difficulty tried.
DifficultyParams ==
    {undefined} \cup
    { Str(w) : w \in { <<"5">>, <<"6">>, <<"8">>, <<"7">>, <<"5", "8">>,
                       <<"6", "x">>, <<"x">> } }

\* .map(w => w.trim().toUpperCase())
RECURSIVE MapTrimUpper(_)
MapTrimUpper(lines) ==
    IF lines = <<>> THEN <<>>
    ELSE <<ToUpperCase(Trim(Head(lines)))>> \o MapTrimUpper(Tail(lines))

\* Mutation of GetWords: the lines are not filtered by length.
GetWordsNoFilter(file, length) == MapTrimUpper(file.lines)

\* getWords(length) on a file that exists.
GetWords(file, length) ==
    SelectSeq(MapTrimUpper(file.lines), LAMBDA w : Len(w) = length)

\* The responses GET /api/word can give: one for each word getRandomWord
\* can draw.
WordResponses(param) ==
    LET difficulty == ParseInt(param)
    IN  IF difficulty.nan \/ difficulty.val \notin {5, 6, 8}
        THEN { [status |-> 400,
                body   |-> [error |-> "Difficoltà non valida. Usa 5, 6 o 8."]] }
        ELSE IF ~wordFiles[difficulty.val].exists
        THEN { [status |-> 500, body |-> [error |-> "Errore del server."]] }
        ELSE LET words == GetWords(wordFiles[difficulty.val], difficulty.val)
             IN  IF Len(words) = 0
                 THEN { [status |-> 500,
                         body   |-> [error |-> "Nessuna parola trovata per questa difficoltà."]] }
                 ELSE { [status |-> 200,
                         body   |-> [word |-> words[i], length |-> Len(words[i])]] :
                        i \in DOMAIN words }

\* The server starts with its word files: the files that exist hold the
\* same lines.
WordInit ==
    /\ req = [none |-> TRUE]
    /\ res = noResponse
    /\ pc = "listening"
    /\ route = "none"
    /\ results = <<>>
    /\ clock = 0
    /\ log = {}
    /\ ConcAtRest
    /\ RoundAtRest
    /\ \E lines \in FileContents, present \in SUBSET {5, 6, 8} :
          wordFiles = [d \in {5, 6, 8} |->
                          IF d \in present
                          THEN [exists |-> TRUE, lines |-> lines]
                          ELSE [exists |-> FALSE]]
    /\ db = [users |-> <<>>, playlists |-> <<>>]

\* GET /api/word?difficulty=param
GetWord(param) ==
    /\ route' = "word"
    /\ req' = [difficulty |-> param]
    /\ res' \in WordResponses(param)
    /\ UNCHANGED <<results, clock, log, pc, concVars, roundVars, diskVars>>

WordNext == \E param \in DifficultyParams : GetWord(param)

SpecWord == WordInit /\ [][WordNext]_vars

\* A word of n letters is available: the file exists and one of its lines,
\* without the spaces around it and in upper case, has n letters.
Available(n) ==
    /\ wordFiles[n].exists
    /\ \E i \in DOMAIN wordFiles[n].lines :
          Len(ToUpperCase(Trim(wordFiles[n].lines[i]))) = n

\* C23: GET /api/word answers 400 unless the difficulty is 5, 6 or 8; for
\* those it answers with a word of the file that has exactly that many
\* letters, length saying so, when one is available, and 500 when none is.
WordSelection ==
    route = "word" =>
        LET n == ParseInt(req.difficulty)
        IN  IF n.nan \/ n.val \notin {5, 6, 8}
            THEN res.status = 400
            ELSE IF Available(n.val)
            THEN /\ res.status = 200
                 /\ Len(res.body.word) = n.val
                 /\ res.body.length = n.val
                 /\ \E i \in DOMAIN wordFiles[n.val].lines :
                       res.body.word = ToUpperCase(Trim(wordFiles[n.val].lines[i]))
            ELSE res.status = 500

\* C23 witness: a word of five letters drawn from a file that also holds a
\* line of another length; the word is a line of four letters that has five
\* in upper case.
WordSelectionWitness ==
    /\ route = "word"
    /\ res.status = 200
    /\ res.body.word = <<"A", "N", "N", "S", "S">>
    /\ \E i \in DOMAIN wordFiles[5].lines :
          Len(ToUpperCase(Trim(wordFiles[5].lines[i]))) # 5

(***************************************************************************)
(* The playlist service: users, playlists and songs kept in db.json.  Each *)
(* handler reads the file, answers and, when it changes something, writes  *)
(* the file, all in one synchronous step.  Ids are random; here a new id   *)
(* is the least number not in use.  createdAt is left out, and the default *)
(* avatar and cover, two emoji, are written as words.                      *)
(***************************************************************************)

\* Most users the file holds.
MaxUsers == 2

\* Most ids in use, of users, playlists and songs together.
MaxIds == 4

\* String.prototype.toLowerCase on the letters used in names.
LowerOfChar(c) == CASE c = "B" -> "b" [] c = "A" -> "a" [] OTHER -> c

ToLowerCase(w) == [i \in DOMAIN w |-> LowerOfChar(w[i])]

\* An object without fields: {}.
EmptyObject == [f \in {} |-> TRUE]

RECURSIVE LeastUnused(_, _)
LeastUnused(used, n) == IF n \in used THEN LeastUnused(used, n + 1) ELSE n

SongIds(d) ==
    UNION { { d.playlists[i].songs[j].id : j \in DOMAIN d.playlists[i].songs } :
            i \in DOMAIN d.playlists }

UsedIds(d) ==
    { d.users[i].id : i \in DOMAIN d.users }
    \cup { d.playlists[i].id : i \in DOMAIN d.playlists }
    \cup SongIds(d)

\* generateId(): an id no record has.
GenerateId(d) == LeastUnused(UsedIds(d), 1)

\* Array.prototype.findIndex, given what the callback answers for each
\* element: the first index that passes, or -1.
FindIndex(passes) ==
    IF \E i \in DOMAIN passes : passes[i]
    THEN CHOOSE i \in DOMAIN passes :
            passes[i] /\ \A j \in DOMAIN passes : passes[j] => i <= j
    ELSE -1

\* Mutation of SanitizeUser: the user as stored.
SanitizeUserKeepAll(user) == user

\* sanitizeUser: the user without its password.
SanitizeUser(user) == [f \in DOMAIN user \ {"password"} |-> user[f]]

Reply(d, status, body) == [db |-> d, res |-> [status |-> status, body |-> body]]

\* The X-User-Id header: absent, or an id.
NoHeader == [present |-> FALSE]

Header(id) == [present |-> TRUE, id |-> id]

\* requireAuth: the user of the request, or the 401 it answers.
RequireAuth(d, header) ==
    IF ~header.present
    THEN [ok |-> FALSE, res |-> [status |-> 401, body |-> [error |-> "Non autenticato"]]]
    ELSE LET idx == FindIndex([k \in DOMAIN d.users |->
                            LET u == d.users[k] IN u.id = header.id])
         IN  IF idx = -1
             THEN [ok |-> FALSE,
                   res |-> [status |-> 401, body |-> [error |-> "Utente non trovato"]]]
             ELSE [ok |-> TRUE, currentUser |-> d.users[idx]]

\* POST /api/auth/register
RegisterOut(d, body) ==
    IF FalsyField(body, "username") \/ FalsyField(body, "password")
    THEN Reply(d, 400, [error |-> "Username e password sono obbligatori"])
    ELSE IF FindIndex([k \in DOMAIN d.users |->
                ToLowerCase(d.users[k].username) = ToLowerCase(body.username.chars)]) # -1
    THEN Reply(d, 409, [error |-> "Username già in uso"])
    ELSE LET newUser == [id       |-> GenerateId(d),
                         username |-> Trim(body.username.chars),
                         password |-> body.password.chars,
                         avatar   |-> "headphones",
                         bio      |-> IF FalsyField(body, "bio") THEN <<>>
                                      ELSE body.bio.chars]
         IN  Reply([d EXCEPT !.users = Append(@, newUser)], 201,
                   [message |-> "Registrazione avvenuta", user |-> SanitizeUser(newUser)])

\* POST /api/auth/login
LoginOut(d, body) ==
    IF FalsyField(body, "username") \/ FalsyField(body, "password")
    THEN Reply(d, 400, [error |-> "Credenziali mancanti"])
    ELSE LET idx == FindIndex([k \in DOMAIN d.users |->
                        /\ d.users[k].username = body.username.chars
                        /\ d.users[k].password = body.password.chars])
         IN  IF idx = -1
             THEN Reply(d, 401, [error |-> "Username o password errati"])
             ELSE Reply(d, 200, [message |-> "Login ok", user |-> SanitizeUser(d.users[idx])])

\* The service starts with an empty database.
ServiceInit ==
    /\ req = [none |-> TRUE]
    /\ res = noResponse
    /\ pc = "listening"
    /\ route = "none"
    /\ results = <<>>
    /\ clock = 0
    /\ log = {}
    /\ ConcAtRest
    /\ RoundAtRest
    /\ wordFiles = [d \in {5, 6, 8} |-> [exists |-> FALSE]]
    /\ db = [users |-> <<>>, playlists |-> <<>>]

\* A handler of the service answered request with out.
Served(name, request, out) ==
    /\ route' = name
    /\ req' = request
    /\ res' = out.res
    /\ db' = out.db
    /\ UNCHANGED <<results, clock, log, pc, concVars, roundVars, wordFiles>>

\* Names and passwords sent to register and login.
Bo == <<"b", "o">>

UserNames == { Bo, <<"B", "o">>, <<" ", "b", "o">>, <<"a", "l">> }

Passwords == { <<"p">>, <<"q">> }

RegisterBodies ==
    { [username |-> Str(n), password |-> Str(w)] : n \in UserNames, w \in Passwords }
    \cup { [username |-> Str(Bo)], [username |-> Str(<<>>), password |-> Str(<<"p">>)] }

LoginBodies ==
    { [username |-> Str(n), password |-> Str(<<"p">>)] : n \in {Bo, <<"B", "o">>} }
    \cup { [password |-> Str(<<"p">>)] }

Register(body) ==
    /\ RegisterOut(db, body).res.status = 201 => Len(db.users) < MaxUsers
    /\ Served("register", body, RegisterOut(db, body))

Login(body) == Served("login", body, LoginOut(db, body))

RegisterNext ==
    \/ \E body \in RegisterBodies : Register(body)
    \/ \E body \in LoginBodies : Login(body)

SpecRegister == ServiceInit /\ [][RegisterNext]_vars

\* This step handled a register request, with a password, whose username
\* some stored user has, but for the case of letters.
RegisteredName ==
    /\ route' = "register"
    /\ "username" \in DOMAIN req'
    /\ "password" \in DOMAIN req' /\ req'.password # Str(<<>>)
    /\ \E i \in DOMAIN db.users :
          ToLowerCase(db.users[i].username) = ToLowerCase(req'.username.chars)

\* C25, as stated: a register request with a username in use is answered
\* 409 and changes nothing, and no two stored users have the same username
\* but for the case of letters.
UsernameUniquenessAsStated ==
    /\ [][RegisteredName => res'.status = 409 /\ db' = db]_vars
    /\ [](\A i, j \in DOMAIN db.users :
             i # j => ToLowerCase(db.users[i].username) # ToLowerCase(db.users[j].username))

\* The part of C25 that holds: the rejection of a username that is in use
\* as it was sent.
UsernameRejection ==
    [][RegisteredName => res'.status = 409 /\ db' = db]_vars

\* Witness of that part: a username was refused that differs from the
\* stored one in the case of a letter.
UsernameRejectionWitness ==
    /\ route = "register"
    /\ res.status = 409
    /\ \E i \in DOMAIN db.users :
          /\ db.users[i].username # req.username.chars
          /\ ToLowerCase(db.users[i].username) = ToLowerCase(req.username.chars)

\* A playlist with its author, as the two GET routes send it.
WithAuthor(d, pl) ==
    LET idx    == FindIndex([k \in DOMAIN d.users |->
                            LET u == d.users[k] IN u.id = pl.userId])
        author == IF idx = -1 THEN EmptyObject ELSE d.users[idx]
    IN  [f \in DOMAIN pl \cup {"author"} |->
            IF f = "author" THEN SanitizeUser(author) ELSE pl[f]]

\* GET /api/playlists
GetPlaylistsOut(d) ==
    Reply(d, 200, [i \in DOMAIN d.playlists |-> WithAuthor(d, d.playlists[i])])

\* GET /api/playlists/:id
GetPlaylistOut(d, id) ==
    LET idx == FindIndex([k \in DOMAIN d.playlists |->
                            LET pl == d.playlists[k] IN pl.id = id])
    IN  IF idx = -1 THEN Reply(d, 404, [error |-> "Playlist non trovata"])
        ELSE Reply(d, 200, WithAuthor(d, d.playlists[idx]))

\* The text of a field of the body, or a default when it is falsy.
TextOr(body, f, default) ==
    IF FalsyField(body, f) THEN default ELSE body[f].chars

\* POST /api/playlists
CreatePlaylistOut(d, header, body) ==
    LET auth == RequireAuth(d, header)
    IN  IF ~auth.ok THEN [db |-> d, res |-> auth.res]
        ELSE IF FalsyField(body, "name")
        THEN Reply(d, 400, [error |-> "Il nome è obbligatorio"])
        ELSE LET nuovaPlaylist ==
                     [id       |-> GenerateId(d),
                      userId   |-> auth.currentUser.id,
                      name     |-> Trim(body.name.chars),
                      subtitle |-> Trim(TextOr(body, "subtitle", <<>>)),
                      cover    |-> TextOr(body, "cover", <<"note">>),
                      songs    |-> <<>>]
             IN  Reply([d EXCEPT !.playlists = Append(@, nuovaPlaylist)], 201,
                       nuovaPlaylist)

\* Mutation of NotOwner: every user passes for the owner.
NotOwnerNever(pl, user) == FALSE

\* db.playlists[idx].userId !== req.currentUser.id
NotOwner(pl, user) == pl.userId # user.id

\* PUT /api/playlists/:id
PutPlaylistOut(d, header, id, body) ==
    LET auth == RequireAuth(d, header)
        idx  == FindIndex([k \in DOMAIN d.playlists |->
                            LET pl == d.playlists[k] IN pl.id = id])
    IN  IF ~auth.ok THEN [db |-> d, res |-> auth.res]
        ELSE IF idx = -1 THEN Reply(d, 404, [error |-> "Playlist non trovata"])
        ELSE IF NotOwner(d.playlists[idx], auth.currentUser)
        THEN Reply(d, 403, [error |-> "Non autorizzato"])
        ELSE LET old     == d.playlists[idx]
                 updated == [old EXCEPT
                               !.name     = TextOr(body, "name", old.name),
                               !.subtitle = IF "subtitle" \in DOMAIN body
                                            THEN body.subtitle.chars
                                            ELSE old.subtitle,
                               !.cover    = TextOr(body, "cover", old.cover)]
             IN  Reply([d EXCEPT !.playlists[idx] = updated], 200, updated)

\* arr.splice(idx, 1)
Splice1(arr, idx) == SubSeq(arr, 1, idx - 1) \o SubSeq(arr, idx + 1, Len(arr))

\* DELETE /api/playlists/:id
DeletePlaylistOut(d, header, id) ==
    LET auth == RequireAuth(d, header)
        idx  == FindIndex([k \in DOMAIN d.playlists |->
                            LET pl == d.playlists[k] IN pl.id = id])
    IN  IF ~auth.ok THEN [db |-> d, res |-> auth.res]
        ELSE IF idx = -1 THEN Reply(d, 404, [error |-> "Playlist non trovata"])
        ELSE IF NotOwner(d.playlists[idx], auth.currentUser)
        THEN Reply(d, 403, [error |-> "Non autorizzato"])
        ELSE Reply([d EXCEPT !.playlists = Splice1(@, idx)], 200,
                   [message |-> "Playlist eliminata"])

\* POST /api/playlists/:playlistId/songs
PostSongOut(d, header, playlistId, body) ==
    LET auth == RequireAuth(d, header)
        idx  == FindIndex([k \in DOMAIN d.playlists |->
                            LET pl == d.playlists[k] IN pl.id = playlistId])
    IN  IF ~auth.ok THEN [db |-> d, res |-> auth.res]
        ELSE IF FalsyField(body, "title") \/ FalsyField(body, "artist")
        THEN Reply(d, 400, [error |-> "Titolo e artista sono obbligatori"])
        ELSE IF idx = -1 THEN Reply(d, 404, [error |-> "Playlist non trovata"])
        ELSE IF NotOwner(d.playlists[idx], auth.currentUser)
        THEN Reply(d, 403, [error |-> "Non autorizzato"])
        ELSE LET nuovaCanzone ==
                     [id       |-> GenerateId(d),
                      title    |-> Trim(body.title.chars),
                      artist   |-> Trim(body.artist.chars),
                      album    |-> Trim(TextOr(body, "album", <<>>)),
                      duration |-> Trim(TextOr(body, "duration", <<"0", ":", "0", "0">>)),
                      genre    |-> Trim(TextOr(body, "genre", <<"A", "l", "t", "r", "o">>))]
             IN  Reply([d EXCEPT !.playlists[idx].songs = Append(@, nuovaCanzone)],
                       201, nuovaCanzone)

\* DELETE /api/playlists/:playlistId/songs/:songId
DeleteSongOut(d, header, playlistId, songId) ==
    LET auth == RequireAuth(d, header)
        idx  == FindIndex([k \in DOMAIN d.playlists |->
                            LET pl == d.playlists[k] IN pl.id = playlistId])
    IN  IF ~auth.ok THEN [db |-> d, res |-> auth.res]
        ELSE IF idx = -1 THEN Reply(d, 404, [error |-> "Playlist non trovata"])
        ELSE IF NotOwner(d.playlists[idx], auth.currentUser)
        THEN Reply(d, 403, [error |-> "Non autorizzato"])
        ELSE LET kept == SelectSeq(d.playlists[idx].songs, LAMBDA sg : sg.id # songId)
             IN  IF Len(kept) = Len(d.playlists[idx].songs)
                 THEN Reply(d, 404, [error |-> "Canzone non trovata"])
                 ELSE Reply([d EXCEPT !.playlists[idx].songs = kept], 200,
                            [message |-> "Canzone rimossa"])

\* new RegExp(search, 'i').test(text) for a search made of letters: text
\* holds search, but for the case of letters.
RegexTest(search, text) ==
    \E k \in 1..(Len(text) - Len(search) + 1) :
        ToLowerCase(SubSeq(text, k, k + Len(search) - 1)) = ToLowerCase(search)

\* GET /api/users
GetUsersOut(d, search) ==
    LET utenti == [i \in DOMAIN d.users |-> SanitizeUser(d.users[i])]
    IN  IF Falsy(search) THEN Reply(d, 200, utenti)
        ELSE Reply(d, 200,
                   SelectSeq(utenti, LAMBDA u : \/ RegexTest(search.chars, u.username)
                                                \/ RegexTest(search.chars, u.bio)))

\* The database after two users registered.
TwoUsers ==
    RegisterOut(RegisterOut([users |-> <<>>, playlists |-> <<>>],
                            [username |-> Str(Bo), password |-> Str(<<"p">>)]).db,
                [username |-> Str(<<"a", "l">>), password |-> Str(<<"q">>)]).db

PlaylistInit ==
    /\ req = [none |-> TRUE]
    /\ res = noResponse
    /\ pc = "listening"
    /\ route = "none"
    /\ results = <<>>
    /\ clock = 0
    /\ log = {}
    /\ ConcAtRest
    /\ RoundAtRest
    /\ wordFiles = [d \in {5, 6, 8} |-> [exists |-> FALSE]]
    /\ db = TwoUsers

\* The X-User-Id headers tried: none, each user's id, an id of no record.
Headers(d) ==
    {NoHeader} \cup
    { Header(i) : i \in { d.users[k].id : k \in DOMAIN d.users } \cup {GenerateId(d)} }

\* The playlist ids tried: those stored and an id of no record.
PlaylistIds(d) ==
    { d.playlists[k].id : k \in DOMAIN d.playlists } \cup {GenerateId(d)}

\* Bodies of POST /api/playlists, with and without a name, and the body of
\* PUT /api/playlists/:id, a new name.
PlaylistBodies == { [name |-> Str(<<"m">>)], [cover |-> Str(<<"c">>)] }

RenameBody == [name |-> Str(<<"n">>)]

\* The song ids tried on a playlist: those of its songs and an id of no record.
SongIdsTried(d, id) ==
    UNION { { pl.songs[j].id : j \in DOMAIN pl.songs } :
            pl \in { q \in { d.playlists[k] : k \in DOMAIN d.playlists } : q.id = id } }
    \cup {GenerateId(d)}

SongBodies ==
    { [title |-> Str(<<"t">>), artist |-> Str(<<"a">>)], [title |-> Str(<<"t">>)] }

CreatePlaylist(header, body) ==
    /\ CreatePlaylistOut(db, header, body).res.status = 201 => GenerateId(db) <= MaxIds
    /\ Served("createPlaylist", [header |-> header, body |-> body],
              CreatePlaylistOut(db, header, body))

PutPlaylist(header, id, body) ==
    Served("putPlaylist", [header |-> header, id |-> id, body |-> body],
           PutPlaylistOut(db, header, id, body))

DeletePlaylist(header, id) ==
    Served("deletePlaylist", [header |-> header, id |-> id],
           DeletePlaylistOut(db, header, id))

PostSong(header, id, body) ==
    /\ PostSongOut(db, header, id, body).res.status = 201 => GenerateId(db) <= MaxIds
    /\ Served("postSong", [header |-> header, id |-> id, body |-> body],
              PostSongOut(db, header, id, body))

DeleteSong(header, id, songId) ==
    Served("deleteSong", [header |-> header, id |-> id, songId |-> songId],
           DeleteSongOut(db, header, id, songId))

\* The first user makes the playlists; every header is tried on them.
PlaylistNext ==
    \E header \in Headers(db) :
        \/ /\ header # Header(db.users[Len(db.users)].id)
           /\ \E body \in PlaylistBodies : CreatePlaylist(header, body)
        \/ \E id \in PlaylistIds(db) :
              \/ PutPlaylist(header, id, RenameBody)
              \/ DeletePlaylist(header, id)
              \/ \E body \in SongBodies : PostSong(header, id, body)
              \/ \E songId \in SongIdsTried(db, id) : DeleteSong(header, id, songId)

SpecPlaylist == PlaylistInit /\ [][PlaylistNext]_vars

\* The stored playlist with this id, if any.
Stored(d, id) == { pl \in { d.playlists[k] : k \in DOMAIN d.playlists } : pl.id = id }

\* This step handled a request that modifies or deletes a playlist, or adds
\* or removes a song.
Modifying == route' \in {"putPlaylist", "deletePlaylist", "postSong", "deleteSong"}

\* The request of this step comes from a user of the database.
FromUser ==
    /\ req'.header.present
    /\ \E k \in DOMAIN db.users : db.users[k].id = req'.header.id

\* The request of this step comes from the owner of the playlist it names.
FromOwner ==
    /\ req'.header.present
    /\ \E pl \in Stored(db, req'.id) : pl.userId = req'.header.id

\* The response the request of this step gets when the header is h.
ResponseTo(h) ==
    CASE route' = "putPlaylist"    -> PutPlaylistOut(db, h, req'.id, req'.body).res
      [] route' = "deletePlaylist" -> DeletePlaylistOut(db, h, req'.id).res
      [] route' = "postSong"       -> PostSongOut(db, h, req'.id, req'.body).res
      [] route' = "deleteSong"     -> DeleteSongOut(db, h, req'.id, req'.songId).res

\* C24: a request that modifies a playlist changes the database only when
\* it comes from the playlist's owner, and then only that playlist; without
\* a header, or with the id of no user, it is answered 401; from another
\* user, a request the owner would succeed with is answered 403; in both
\* cases nothing changes.
PlaylistOwnership ==
    [][Modifying =>
         /\ db' # db =>
               /\ FromOwner
               /\ db'.users = db.users
               /\ \A pl \in { db.playlists[k] : k \in DOMAIN db.playlists } :
                     pl.id # req'.id => pl \in Stored(db', pl.id)
         /\ ~FromUser => res'.status = 401 /\ db' = db
         /\ (FromUser /\ ~FromOwner /\
             \E pl \in Stored(db, req'.id) :
                 ResponseTo(Header(pl.userId)).status \in {200, 201})
               => res'.status = 403 /\ db' = db]_vars

\* C24 witness: a user was refused the removal of a song from another
\* user's playlist, which still holds the song.
PlaylistOwnershipWitness ==
    /\ route = "deleteSong"
    /\ res.status = 403
    /\ \E pl \in Stored(db, req.id) :
          /\ pl.userId # req.header.id
          /\ \E j \in DOMAIN pl.songs : pl.songs[j].id = req.songId

(***************************************************************************)
(* Every route of the playlist service, from an empty database.            *)
(***************************************************************************)

\* The register bodies of this specification: two users, a name in use in
\* another case, a body without password.
ServiceRegisterBodies ==
    { [username |-> Str(Bo), password |-> Str(<<"p">>)],
      [username |-> Str(<<"a", "l">>), password |-> Str(<<"q">>)],
      [username |-> Str(<<"B", "o">>), password |-> Str(<<"q">>)],
      [username |-> Str(Bo)] }

MaxServiceIds == 3

\* req.query.search: absent, or a letter.
Searches == { undefined, Str(<<"B">>) }

GetPlaylists == Served("getPlaylists", [none |-> TRUE], GetPlaylistsOut(db))

GetPlaylist(id) == Served("getPlaylist", [id |-> id], GetPlaylistOut(db, id))

GetUsers(search) == Served("getUsers", [search |-> search], GetUsersOut(db, search))

\* The headers of this specification: none, and each stored user's.
UserHeaders(d) == {NoHeader} \cup { Header(d.users[k].id) : k \in DOMAIN d.users }

\* The ids of the stored playlists.
StoredIds(d) == { d.playlists[k].id : k \in DOMAIN d.playlists }

ServiceNext ==
    \/ \E body \in ServiceRegisterBodies :
          /\ RegisterOut(db, body).res.status = 201 => GenerateId(db) <= MaxServiceIds
          /\ Register(body)
    \/ \E body \in LoginBodies : Login(body)
    \/ GetPlaylists
    \/ \E id \in PlaylistIds(db) : GetPlaylist(id)
    \/ \E search \in Searches : GetUsers(search)
    \/ \E header \in UserHeaders(db) :
          \/ /\ GenerateId(db) <= MaxServiceIds
             /\ CreatePlaylist(header, [name |-> Str(<<"m">>)])
          \/ \E id \in StoredIds(db) :
                \/ PutPlaylist(header, id, [name |-> Str(<<"m">>)])
                \/ DeletePlaylist(header, id)
                \/ /\ GenerateId(db) <= MaxServiceIds
                   /\ PostSong(header, id, [title |-> Str(<<"t">>), artist |-> Str(<<"a">>)])
                \/ \E songId \in SongIdsTried(db, id) : DeleteSong(header, id, songId)

SpecService == ServiceInit /\ [][ServiceNext]_vars

\* The user objects of the response just sent.
UserObjects ==
    IF route \in {"register", "login"} /\ "user" \in DOMAIN res.body
    THEN {res.body.user}
    ELSE IF route = "getUsers" THEN { res.body[i] : i \in DOMAIN res.body }
    ELSE IF route = "getPlaylists" THEN { res.body[i].author : i \in DOMAIN res.body }
    ELSE IF route = "getPlaylist" /\ res.status = 200 THEN {res.body.author}
    ELSE {}

\* The other objects of the response just sent.
OtherObjects ==
    IF route = "getPlaylists" THEN { res.body[i] : i \in DOMAIN res.body }
    ELSE IF route \in {"none", "getUsers"} THEN {}
    ELSE {res.body}

\* The database with other passwords, and nothing else changed.
Repassword(d, pw) ==
    [d EXCEPT !.users = [i \in DOMAIN d.users |-> [d.users[i] EXCEPT !.password = pw[i]]]]

OtherPasswords(d) ==
    { Repassword(d, pw) : pw \in [DOMAIN d.users -> Passwords \cup {<<"z">>}] }

\* Every request of the service but login gets the same response from both
\* databases.
SameResponses(d, e) ==
    /\ \A body \in ServiceRegisterBodies : RegisterOut(d, body).res = RegisterOut(e, body).res
    /\ GetPlaylistsOut(d).res = GetPlaylistsOut(e).res
    /\ \A search \in Searches : GetUsersOut(d, search).res = GetUsersOut(e, search).res
    /\ \A id \in PlaylistIds(d) : GetPlaylistOut(d, id).res = GetPlaylistOut(e, id).res
    /\ \A header \in Headers(d) :
          /\ \A body \in PlaylistBodies :
                CreatePlaylistOut(d, header, body).res = CreatePlaylistOut(e, header, body).res
          /\ \A id \in PlaylistIds(d) :
                /\ PutPlaylistOut(d, header, id, RenameBody).res
                      = PutPlaylistOut(e, header, id, RenameBody).res
                /\ DeletePlaylistOut(d, header, id).res = DeletePlaylistOut(e, header, id).res
                /\ \A body \in SongBodies :
                      PostSongOut(d, header, id, body).res = PostSongOut(e, header, id, body).res
                /\ \A songId \in SongIdsTried(d, id) :
                      DeleteSongOut(d, header, id, songId).res
                         = DeleteSongOut(e, header, id, songId).res

\* C26: no response of the playlist service carries a password: the user
\* objects sent by register, login, the playlist routes and the user list have
\* no password field, no other object of a response has one, and every
\* request other than login gets the same response from two databases that
\* differ only in the passwords.
NoPasswordDisclosure ==
    /\ \A o \in UserObjects \cup OtherObjects : "password" \notin DOMAIN o
    /\ \A e \in OtherPasswords(db) : SameResponses(db, e)

\* The playlists of two users with different passwords were listed with
\* their authors.
NoPasswordDisclosureWitness ==
    /\ route = "getPlaylists"
    /\ Len(res.body) > 0
    /\ "username" \in DOMAIN res.body[1].author
    /\ Len(db.users) = 2
    /\ db.users[1].password # db.users[2].password

(***************************************************************************)
(* The matching of guess letters to target letters.                        *)
(***************************************************************************)

Min(a, b) == IF a <= b THEN a ELSE b

\* C27: for every letter L of an accepted request, the guess positions
\* holding L that are marked correct or present are exactly
\* min(occurrences of L in the guess, occurrences of L in the target); and a
\* position is absent only when as many positions of its letter are marked
\* as the target holds that letter.
MaximalMatching ==
    Accepted =>
        /\ \A L \in Letters(gU) :
              Cardinality(Marked(L, {"correct", "present"}))
                 = Min(Occ(gU, L), Occ(tU, L))
        /\ \A i \in DOMAIN gU :
              res.body.result[i] = "absent" =>
                 Cardinality(Marked(gU[i], {"correct", "present"})) = Occ(tU, gU[i])

\* C27 witness: the target holds a letter twice, nowhere the guess does, and
\* the guess holds it twice: both are claimed.
MaximalMatchingWitness ==
    /\ Accepted
    /\ \E L \in Letters(gU) :
          /\ Occ(tU, L) >= 2
          /\ Occ(gU, L) >= 2
          /\ Cardinality(Marked(L, {"present"})) >= 2

\* C28: of two guess positions i < j holding the same letter, neither an
\* exact match, the later one is present only if the earlier one is.
ClaimOrder ==
    Accepted =>
        \A i, j \in DOMAIN gU :
            ( /\ i < j
              /\ gU[i] = gU[j]
              /\ At(tU, i) # gU[i]
              /\ At(tU, j) # gU[j]
              /\ res.body.result[j] = "present" )
                => res.body.result[i] = "present"

\* C28 witness: of two such positions the earlier is present and the later
\* was denied.
ClaimOrderWitness ==
    /\ Accepted
    /\ \E i, j \in DOMAIN gU :
          /\ i < j
          /\ gU[i] = gU[j]
          /\ At(tU, i) # gU[i]
          /\ At(tU, j) # gU[j]
          /\ res.body.result[i] = "present"
          /\ res.body.result[j] = "absent"

(***************************************************************************)
(* The end of a round in the browser.                                      *)
(***************************************************************************)

\* C29, as stated: also when INVIO is pressed again, or the row edited,
\* while a request or a reveal animation is pending, a round has at most one
\* evaluated guess per grid row (the row a finished submitGuess revealed is
\* the current one, not one evaluated before) and saveResult is called
\* exactly once, when the round ends.
OneResultPerRoundAsStated ==
    /\ [][Evaluated => Head(pending.revealing).rowIdx = Len(state.history)]_vars
    /\ [](Len(saved) = (IF state.gameOver THEN 1 ELSE 0))

\* A round saved twice: the winning row was sent twice.
SavedTwice ==
    /\ state.gameOver
    /\ Len(saved) = 2
    /\ saved[1].won /\ saved[2].won

\* The fields of the round.
RoundFields(st) == <<st.currentRow, st.currentCol, st.currentGuess, st.history>>

\* This step started a new round.
NewRound ==
    \E d \in Difficulties :
        state' = [InitialState EXCEPT !.screen = "game",
                                      !.difficulty = d,
                                      !.maxAttempts = MaxAttemptsOf(d),
                                      !.targetWord = TargetOf(d)]

\* C30, as stated: once gameOver is true the row, the column, the guess
\* being typed and the history of rows no longer change until a new round
\* is started.
RoundOverTerminalAsStated ==
    [][state.gameOver => (RoundFields(state') = RoundFields(state) \/ NewRound)]_vars

\* A row recorded after the round was won.
RowAfterRoundOver ==
    /\ state.gameOver /\ state.won
    /\ Len(state.history) = 2
    /\ IsWon(state.history[1])

(***************************************************************************)
(* The row being typed.                                                    *)
(***************************************************************************)

\* C31: whatever letters, backspaces and submissions came, currentCol is the
\* length of currentGuess and lies between 0 and difficulty, the rows of
\* history are as many as currentRow, a letter on a full row changes
\* nothing, and a backspace on an empty row changes nothing.
CursorInvariant ==
    /\ state.currentCol = Len(state.currentGuess)
    /\ 0 <= state.currentCol /\ state.currentCol <= state.difficulty
    /\ Len(state.history) = state.currentRow
    /\ state.currentCol >= state.difficulty =>
          \A letter \in RoundLetters : AddLetterTo(state, letter) = state
    /\ state.currentCol = 0 => DeleteLetterFrom(state) = state

\* C31 witness: a full row, after a recorded row, with its request in
\* flight: letters are typed on a full row, INVIO again is possible.
CursorWitness ==
    /\ state.screen = "game"
    /\ ~state.gameOver
    /\ state.currentRow >= 1
    /\ state.currentCol = state.difficulty
    /\ pending.fetching # <<>>

SaveBodies ==
    { [player |-> Str(Ann), word |-> Str(WordPlayed), attempts |-> 1, time |-> 1,
       difficulty |-> 5, won |-> TRUE],
      [player |-> Str(BoPadded), word |-> Str(WordPlayed), attempts |-> 1, time |-> 1,
       difficulty |-> 5, won |-> FALSE],
      [word |-> Str(WordPlayed), attempts |-> 1, time |-> 1, difficulty |-> 5,
       won |-> TRUE],
      [player |-> JsNumber(7), word |-> Str(WordPlayed), attempts |-> 1,
       time |-> 1, difficulty |-> 5, won |-> TRUE] }

\* The results file when the requests come: empty, or with a record.
StoredBefore ==
    { <<>>,
      <<NewRecord([player |-> Str(Ann), word |-> Str(WordPlayed), attempts |-> 2,
                   time |-> 2, difficulty |-> 5, won |-> TRUE], 0)>> }

\* Mutation of RunToCompletion: a handler starts at any time.
Preempting(c) == TRUE

\* The handler of c may start: no other handler is between its read and
\* its write.
RunToCompletion(c) ==
    \A d \in Callers \ {c} : calls[d].phase # "read"

SaveInit ==
    /\ req = [none |-> TRUE]
    /\ res = noResponse
    /\ pc = "listening"
    /\ route = "results"
    /\ results \in StoredBefore
    /\ clock = 0
    /\ log = {}
    /\ ConcAtRest
    /\ RoundAtRest
    /\ DiskAtRest

\* The request of caller c arrives and its body is parsed.
SaveArrive(c, body) ==
    /\ calls[c].phase = "idle"
    /\ calls' = [calls EXCEPT ![c] = [phase |-> "arrived", body |-> body]]
    /\ UNCHANGED frames
    /\ UNCHANGED <<req, res, pc, serverVars, roundVars, diskVars>>

\* The handler of c up to readResults(): 400 for missing data; else the
\* file is read into the handler's array; player.trim() of a player that is
\* not a string throws and the error handler answers 500.
SaveRead(c) ==
    /\ calls[c].phase = "arrived"
    /\ RunToCompletion(c)
    /\ LET body == calls[c].body
       IN  IF ResultsInvalid(body)
           THEN /\ calls' = [calls EXCEPT ![c] =
                               [phase |-> "done", body |-> body,
                                response |-> [status |-> 400,
                                              body |-> [error |-> "Dati mancanti."]]]]
                /\ UNCHANGED frames
           ELSE IF body.player.type # "string"
           THEN /\ calls' = [calls EXCEPT ![c] =
                               [phase |-> "done", body |-> body,
                                response |-> [status |-> 500,
                                              body |-> [error |-> "Errore interno del server."]]]]
                /\ UNCHANGED frames
           ELSE /\ calls' = [calls EXCEPT ![c].phase = "read"]
                /\ frames' = [frames EXCEPT ![c] = [results |-> results]]
    /\ UNCHANGED <<req, res, pc, serverVars, roundVars, diskVars>>

\* The rest of the handler of c: newRecord, results.push, saveResults and
\* the 201.
SaveWrite(c) ==
    /\ calls[c].phase = "read"
    /\ LET newRecord == NewRecord(calls[c].body, clock)
       IN  /\ results' = Append(frames[c].results, newRecord)
           /\ calls' = [calls EXCEPT ![c] =
                           [phase |-> "done", body |-> calls[c].body,
                            response |-> [status |-> 201,
                                          body |-> [message |-> "Risultato salvato!",
                                                    record  |-> newRecord]]]]
    /\ UNCHANGED frames
    /\ UNCHANGED <<req, res, pc, route, clock, log, roundVars, diskVars>>

SaveNext ==
    \/ \E c \in Callers :
          \/ \E body \in SaveBodies : SaveArrive(c, body)
          \/ SaveRead(c)
          \/ SaveWrite(c)
    \/ Tick

SpecSaves == SaveInit /\ [][SaveNext]_vars

\* The callers answered 201.
Saved201(cs) ==
    { c \in Callers : cs[c].phase = "done" /\ cs[c].response.status = 201 }

\* The stored list grows by as many records as requests are accepted.
GrowsByAccepted ==
    Len(results') - Len(results)
       = Cardinality(Saved201(calls')) - Cardinality(Saved201(calls))

\* C33, as stated: in any interleaving of POST /api/results requests, the
\* record of every handled request with a valid body (no data missing) is
\* in the stored results, and the stored list grows by exactly the number
\* of accepted requests.
NoLostUpdateAsStated ==
    /\ [][GrowsByAccepted]_vars
    /\ [](\A c \in Callers :
             (calls[c].phase = "done" /\ ~MissingData(calls[c].body)) =>
                /\ calls[c].response.status = 201
                /\ \E i \in DOMAIN results : results[i] = calls[c].response.body.record)

\* The part of C33 that holds: the record of every accepted request is in
\* the stored results, and the stored list grows by exactly the number of
\* accepted requests.
NoLostUpdate ==
    /\ [][GrowsByAccepted]_vars
    /\ [](\A c \in Callers :
             (calls[c].phase = "done" /\ calls[c].response.status = 201) =>
                \E i \in DOMAIN results : results[i] = calls[c].response.body.record)

\* Witness of that part: two requests of different players are both stored
\* after the record that was there, the second caller's first.
NoLostUpdateWitness ==
    /\ \A c \in {1, 2} : calls[c].phase = "done" /\ calls[c].response.status = 201
    /\ calls[1].body.player # calls[2].body.player
    /\ Len(results) = 3
    /\ results[2] = calls[2].response.body.record
    /\ results[3] = calls[1].response.body.record

(***************************************************************************)
(* The target slot each present verdict consumes.                          *)
(***************************************************************************)

\* The arrays of the accepted request when pass 2 begins.
AfterPass1 == Pass1(InitArrays(gU, tU), 1)

\* The iterations of pass 2 from the i-th on, each added to the arrays
\* before it.
RECURSIVE Pass2Steps(_, _)
Pass2Steps(tr, i) ==
    IF i > Len(gU) THEN tr
    ELSE Pass2Steps(Append(tr, Pass2Iter(tr[Len(tr)], i)), i + 1)

\* The arrays before each iteration of pass 2, and after the last.
Pass2Trace == Pass2Steps(<<AfterPass1>>, 1)

\* The target slots iteration i of pass 2 consumes.
ConsumedAt(tr, i) ==
    { j \in DOMAIN tU : tr[i].targetArr[j] # null /\ tr[i + 1].targetArr[j] = null }

\* The unconsumed target slots holding the letter of guess position i when
\* iteration i of pass 2 begins.
Candidates(tr, i) == { j \in DOMAIN tU : tr[i].targetArr[j] = gU[i] }

\* C34: the iterations of pass 2 give the verdicts of the response; an
\* iteration that assigns present consumes exactly one target slot, the
\* lowest unconsumed one holding the guessed letter; any other iteration
\* consumes none; no slot is changed but by being consumed.
FirstFoundConsumption ==
    Accepted =>
        LET tr == Pass2Trace
        IN  /\ tr[Len(gU) + 1].result = res.body.result
            /\ \A i \in DOMAIN gU :
                  /\ \A j \in DOMAIN tU :
                        tr[i + 1].targetArr[j] \in {tr[i].targetArr[j], null}
                  /\ IF res.body.result[i] = "present"
                     THEN \E idx \in Candidates(tr, i) :
                             /\ ConsumedAt(tr, i) = {idx}
                             /\ \A k \in Candidates(tr, i) : idx <= k
                     ELSE ConsumedAt(tr, i) = {}

\* C34 witness: a present verdict for a letter that two unconsumed target
\* slots held.
FirstFoundWitness ==
    /\ Accepted
    /\ \E i \in DOMAIN gU :
          /\ res.body.result[i] = "present"
          /\ Cardinality(Candidates(Pass2Trace, i)) >= 2

====
